---- MODULE Spec2Model ----
(***************************************************************************)
(* The Pregel step engine of langgraph/pregel/algo.py: the planner         *)
(* (prepare_next_tasks, prepare_single_task, _proc_input), write           *)
(* application (apply_writes), the interrupt check (should_interrupt) and  *)
(* the injected writer (local_write), driven as a plan / execute / apply   *)
(* loop over a small process registry and three channels.                  *)
(***************************************************************************)
EXTENDS Integers, Sequences, FiniteSets, TLC

(***************************************************************************)
(* Bounds of the model.                                                    *)
(***************************************************************************)
\* apply_writes calls (input applications and superstep applications) per run
MaxApplies == 3
\* writes the tasks of one superstep emit in total
MaxStepWrites == 2

(***************************************************************************)
(* Names imported from langgraph.constants.                                *)
(***************************************************************************)
PUSH == "__pregel_push"
PULL == "__pregel_pull"
TASKS == "__pregel_tasks"
INTERRUPT == "__interrupt__"
INPUT == "__input__"
NO_WRITES == "__no_writes__"
RESUME == "__resume__"
RETURN == "__return__"
ERROR == "__error__"
NULL_TASK_ID == "00000000-0000-0000-0000-000000000000"
NS_SEP == "|"
NS_END == ":"

\* the control names apply_writes drops (line 274)
ControlNames == {NO_WRITES, PUSH, RESUME, INTERRUPT, RETURN, ERROR}

(***************************************************************************)
(* Finite maps (Python dicts) as functions with a varying domain.          *)
(***************************************************************************)
EmptyMap == [x \in {} |-> 0]
Get(f, k, d) == IF k \in DOMAIN f THEN f[k] ELSE d
Put(f, k, v) == [x \in (DOMAIN f) \cup {k} |-> IF x = k THEN v ELSE f[x]]
Range(s) == {s[i] : i \in DOMAIN s}
SetMax(S) == CHOOSE m \in S : \A x \in S : x <= m

(***************************************************************************)
(* Values carried by writes: a data value, a Send packet or None.          *)
(***************************************************************************)
Val(v) == [type |-> "val", node |-> "", arg |-> v]
Send(n, a) == [type |-> "send", node |-> n, arg |-> a]
None == [type |-> "none", node |-> "", arg |-> 0]
\* the data values the bodies write
Vals == {1}

(***************************************************************************)
(* The channels.  Their classes live outside algo.py; the three kinds      *)
(* follow the capability set {update, consume, read}:                      *)
(*   last  : last-write wins; update([]) and consume() report no change    *)
(*   topic : holds the values of the current step only; update(vals)       *)
(*           replaces the contents and reports whether they changed        *)
(*   drain : accumulates writes; consume() empties it and reports a change *)
(*           when it held something                                        *)
(* A channel's state is the sequence of values it holds; it is available   *)
(* (read does not raise EmptyChannelError) when that sequence is not empty.*)
(***************************************************************************)
Chans == {"in", "mid", "out"}
ChanOrder == <<"in", "mid", "out">>
ChannelKind(c) == CASE c = "in" -> "last" [] c = "mid" -> "topic" [] OTHER -> "drain"

ChannelUpdate(c, cur, vals) ==
  CASE ChannelKind(c) = "last" ->
         IF vals = <<>> THEN [value |-> cur, updated |-> FALSE]
         ELSE [value |-> <<vals[Len(vals)]>>, updated |-> TRUE]
    [] ChannelKind(c) = "topic" ->
         [value |-> vals, updated |-> vals # cur]
    [] OTHER ->
         IF vals = <<>> THEN [value |-> cur, updated |-> FALSE]
         ELSE [value |-> cur \o vals, updated |-> TRUE]

ChannelConsume(c, cur) ==
  IF ChannelKind(c) = "drain" /\ cur # <<>>
  THEN [value |-> <<>>, updated |-> TRUE]
  ELSE [value |-> cur, updated |-> FALSE]

\* read_channel(channels, chan, return_exception=True) is an EmptyChannelError
IsEmptyChannel(chs, c) == c \notin DOMAIN chs \/ chs[c] = <<>>

(***************************************************************************)
(* The process registry (a dict, in insertion order).                      *)
(***************************************************************************)
ProcOrder == <<"A", "B", "C">>
Procs == Range(ProcOrder)
Chan(k, c) == [k |-> k, c |-> c]
\* proc.mapper is None
NoMapper == ""
\* B reads the managed value "mv" under the key of that name; A has a mapper
Process(n) ==
  CASE n = "A" -> [triggers |-> <<"in">>, kind |-> "list",
                   channels |-> <<Chan("", "in")>>, hidden |-> FALSE,
                   mapper |-> "tag"]
    [] n = "B" -> [triggers |-> <<"out", "mid">>, kind |-> "dict",
                   channels |-> <<Chan("x", "mid"), Chan("y", "in"), Chan("mv", "mv")>>,
                   hidden |-> FALSE, mapper |-> NoMapper]
    [] OTHER   -> [triggers |-> <<"in", "mid">>, kind |-> "list",
                   channels |-> <<Chan("", "out"), Chan("", "mid")>>, hidden |-> TRUE,
                   mapper |-> NoMapper]

(***************************************************************************)
(* Task paths: Python tuples of strings, integers and nested tuples.       *)
(***************************************************************************)
PS(a) == [t |-> "s", s |-> a, i |-> 0, tup |-> <<>>]
PI(n) == [t |-> "i", s |-> "", i |-> n, tup |-> <<>>]
PT(p) == [t |-> "t", s |-> "", i |-> 0, tup |-> p]

\* the strings that occur in the first three parts of a path, in str order
StrOrder == <<"A", "B", "C", "Z", PULL, PUSH>>
StrRank(s) == CHOOSE i \in DOMAIN StrOrder : StrOrder[i] = s

Prefix3(p) == IF Len(p) <= 3 THEN p ELSE SubSeq(p, 1, 3)

\* Python's tuple comparison: "lt", "eq", "gt", or "err" (TypeError) when the
\* first pair of unequal parts has different types
RECURSIVE CmpPath(_, _)
CmpPath(p, q) ==
  IF p = <<>> /\ q = <<>> THEN "eq"
  ELSE IF p = <<>> THEN "lt"
  ELSE IF q = <<>> THEN "gt"
  ELSE IF Head(p) = Head(q) THEN CmpPath(Tail(p), Tail(q))
  ELSE LET a == Head(p)
           b == Head(q)
       IN IF a.t # b.t THEN "err"
          ELSE IF a.t = "s" THEN (IF StrRank(a.s) < StrRank(b.s) THEN "lt" ELSE "gt")
          ELSE IF a.t = "i" THEN (IF a.i < b.i THEN "lt" ELSE "gt")
          ELSE CmpPath(a.tup, b.tup)

\* sorted(tasks, key=lambda t: t.path[:3]) raises TypeError
SortRaises(ts) ==
  \E i, j \in DOMAIN ts : CmpPath(Prefix3(ts[i].path), Prefix3(ts[j].path)) = "err"

\* insert t after every element whose key is not greater (the sort is stable)
RECURSIVE InsertTask(_, _)
InsertTask(sorted, t) ==
  IF sorted = <<>> THEN <<t>>
  ELSE IF CmpPath(Prefix3(t.path), Prefix3(Head(sorted).path)) = "lt"
       THEN <<t>> \o sorted
       ELSE <<Head(sorted)>> \o InsertTask(Tail(sorted), t)

RECURSIVE SortLoop(_, _)
SortLoop(acc, rest) ==
  IF rest = <<>> THEN acc ELSE SortLoop(InsertTask(acc, Head(rest)), Tail(rest))

SortTasks(ts) == SortLoop(<<>>, ts)

(***************************************************************************)
(* Tasks (PregelExecutableTask / PregelTaskWrites): id, name, path (the    *)
(* first three parts of the task path), triggers, the write buffer, the    *)
(* bound input and whether the merged config carries the hidden tag.       *)
(***************************************************************************)
Write(c, v) == [chan |-> c, val |-> v]
Task(id, name, path, triggers, writes, input, hidden) ==
  [id |-> id, name |-> name, path |-> path, triggers |-> triggers,
   writes |-> writes, input |-> input, hidden |-> hidden]

\* PregelTaskWrites((), INPUT, writes, []): the null task of graph input
NullTask(writes) == Task(NULL_TASK_ID, INPUT, <<>>, <<>>, writes, <<>>, FALSE)

Checkpoint(id, cv, vs, ps) ==
  [id |-> id, channel_versions |-> cv, versions_seen |-> vs, pending_sends |-> ps]

(***************************************************************************)
(* apply_writes                                                            *)
(***************************************************************************)
\* Increment advancing by two
IncrementTwice(current) == current + 2

\* Increment handing back the version it was given
IncrementStuck(current) == IF current = 0 THEN 1 ELSE current

\* increment(current, channel); a current of None is modelled as 0
Increment(current) == current + 1

\* MaxVersion taking the lowest version
MinVersion(cv) ==
  IF DOMAIN cv = {} THEN 0
  ELSE CHOOSE m \in {cv[c] : c \in DOMAIN cv} : \A c \in DOMAIN cv : m <= cv[c]

\* max(checkpoint["channel_versions"].values()), None (0) when there is none
MaxVersion(cv) == IF DOMAIN cv = {} THEN 0 ELSE SetMax({cv[c] : c \in DOMAIN cv})

\* UpdateSeen recording nothing
UpdateSeenNone(vs, cv, ts) == vs

\* UpdateSeen recording the version after the one read
RECURSIVE UpdateSeenMut(_, _, _)
UpdateSeenMut(vs, cv, ts) ==
  IF ts = <<>> THEN vs
  ELSE LET t == Head(ts)
           old == Get(vs, t.name, EmptyMap)
           trig == {c \in Range(t.triggers) : c \in DOMAIN cv}
           new == [c \in (DOMAIN old) \cup trig |->
                     IF c \in trig THEN Increment(cv[c]) ELSE old[c]]
       IN UpdateSeenMut(Put(vs, t.name, new), cv, Tail(ts))

\* lines 236-244: versions_seen.setdefault(task.name, {}).update({...})
RECURSIVE UpdateSeen(_, _, _)
UpdateSeen(vs, cv, ts) ==
  IF ts = <<>> THEN vs
  ELSE LET t == Head(ts)
           old == Get(vs, t.name, EmptyMap)
           trig == {c \in Range(t.triggers) : c \in DOMAIN cv}
           new == [c \in (DOMAIN old) \cup trig |-> IF c \in trig THEN cv[c] ELSE old[c]]
       IN UpdateSeen(Put(vs, t.name, new), cv, Tail(ts))

\* lines 253-258: the channels that were read by the tasks
ConsumeSet(chs, ts) ==
  {c \in UNION {Range(ts[i].triggers) : i \in DOMAIN ts} :
     c \notin ControlNames \cup {TASKS, PULL, INPUT} /\ c \in DOMAIN chs}

\* ClearSends dropping the first pending send only
ClearSendsFirst(ps, bump_step) == IF ps # <<>> /\ bump_step THEN Tail(ps) ELSE ps

\* ClearSends without the clear
ClearSendsMut(ps, bump_step) == ps

\* lines 265-267
ClearSends(ps, bump_step) == IF ps # <<>> /\ bump_step THEN <<>> ELSE ps

RECURSIVE FlatWrites(_)
FlatWrites(ts) == IF ts = <<>> THEN <<>> ELSE Head(ts).writes \o FlatWrites(Tail(ts))

\* Partition dropping the writes to names that are not channels
RECURSIVE PartitionMut(_, _, _)
PartitionMut(acc, chs, ws) ==
  IF ws = <<>> THEN acc
  ELSE LET w == Head(ws)
           nxt == IF w.chan \in ControlNames THEN acc
                  ELSE IF w.chan = TASKS
                       THEN [acc EXCEPT !.sends = Append(@, w.val)]
                  ELSE IF w.chan \in DOMAIN chs
                       THEN [acc EXCEPT !.by_channel =
                               Put(@, w.chan, Append(Get(@, w.chan, <<>>), w.val))]
                  ELSE acc
       IN PartitionMut(nxt, chs, Tail(ws))

\* lines 269-281: the writes of the sorted tasks, partitioned
RECURSIVE Partition(_, _, _)
Partition(acc, chs, ws) ==
  IF ws = <<>> THEN acc
  ELSE LET w == Head(ws)
           nxt == IF w.chan \in ControlNames THEN acc
                  ELSE IF w.chan = TASKS
                       THEN [acc EXCEPT !.sends = Append(@, w.val)]
                  ELSE IF w.chan \in DOMAIN chs
                       THEN [acc EXCEPT !.by_channel =
                               Put(@, w.chan, Append(Get(@, w.chan, <<>>), w.val))]
                  ELSE [acc EXCEPT !.by_managed =
                               Put(@, w.chan, Append(Get(@, w.chan, <<>>), w.val))]
       IN Partition(nxt, chs, Tail(ws))

\* IdleChannels without the test on updated_channels
IdleChannelsMut(chs, updated_channels, bump_step) ==
  IF bump_step THEN DOMAIN chs ELSE {}

\* lines 300-308: the channels notified of a new step with update([])
IdleChannels(chs, updated_channels, bump_step) ==
  IF bump_step THEN {c \in DOMAIN chs : c \notin updated_channels} ELSE {}

\* the seed of the update phase taken over from the consume phase
UpdateSeedStale(cv, max_version) == max_version

\* lines 283-287: max_version, computed before the consume phase, is computed
\* again from channel_versions before the update phase
UpdateSeed(cv, max_version) == MaxVersion(cv)

\* The whole call.  has_next says whether get_next_version is given (increment).
\* The result holds the checkpoint and channels as the call leaves them, the
\* returned managed writes, and a log of the update/consume calls it made
\* (drained: the channels whose consume() reported a change; changed: those
\* whose update reported one).
ApplyWrites(cp, chs, tasks_in, has_next) ==
  IF SortRaises(tasks_in)
  THEN [raised |-> TRUE, checkpoint |-> cp, channels |-> chs, managed |-> EmptyMap,
        bump_step |-> FALSE, sorted |-> <<>>,
        update_calls |-> [c \in DOMAIN chs |-> <<>>], consumed |-> {},
        drained |-> {}, changed |-> {}]
  ELSE
  LET tasks == SortTasks(tasks_in)
      bump_step == \E i \in DOMAIN tasks : tasks[i].triggers # <<>>
      cv0 == cp.channel_versions
      vs1 == UpdateSeen(cp.versions_seen, cv0, tasks)
      max0 == MaxVersion(cv0)
      cset == ConsumeSet(chs, tasks)
      cons == [c \in cset |-> ChannelConsume(c, chs[c])]
      chs1 == [c \in DOMAIN chs |-> IF c \in cset THEN cons[c].value ELSE chs[c]]
      bumped1 == {c \in cset : cons[c].updated /\ has_next}
      cv1 == [c \in (DOMAIN cv0) \cup bumped1 |->
                IF c \in bumped1 THEN Increment(max0) ELSE cv0[c]]
      ps1 == ClearSends(cp.pending_sends, bump_step)
      part == Partition([sends |-> ps1, by_channel |-> EmptyMap, by_managed |-> EmptyMap],
                        chs, FlatWrites(tasks))
      max1 == UpdateSeed(cv1, max0)
      updated_channels == DOMAIN part.by_channel
      idle == IdleChannels(chs, updated_channels, bump_step)
      calls == [c \in DOMAIN chs |->
                  (IF c \in updated_channels THEN <<part.by_channel[c]>> ELSE <<>>)
                  \o (IF c \in idle THEN << <<>> >> ELSE <<>>)]
      upd == [c \in updated_channels \cup idle |->
                ChannelUpdate(c, chs1[c], IF c \in updated_channels
                                          THEN part.by_channel[c] ELSE <<>>)]
      chs2 == [c \in DOMAIN chs |-> IF c \in DOMAIN upd THEN upd[c].value ELSE chs1[c]]
      bumped2 == {c \in DOMAIN upd : upd[c].updated /\ has_next}
      cv2 == [c \in (DOMAIN cv1) \cup bumped2 |->
                IF c \in bumped2 THEN Increment(max1) ELSE cv1[c]]
  IN [raised |-> FALSE,
      checkpoint |-> Checkpoint(cp.id, cv2, vs1, part.sends),
      channels |-> chs2,
      managed |-> part.by_managed,
      bump_step |-> bump_step,
      sorted |-> tasks,
      update_calls |-> calls,
      consumed |-> cset,
      drained |-> {c \in cset : cons[c].updated},
      changed |-> {c \in DOMAIN upd : upd[c].updated}]

(***************************************************************************)
(* Task identity                                                           *)
(***************************************************************************)
\* parent_ns = config[CONF].get(CONFIG_KEY_CHECKPOINT_NS, ""): a top-level graph
ParentNs == ""
CheckpointNs(name) == IF ParentNs # "" THEN ParentNs \o NS_SEP \o name ELSE name

RECURSIVE Concat(_)
Concat(parts) == IF parts = <<>> THEN "" ELSE Head(parts) \o Concat(Tail(parts))

\* _uuid5_str: the SHA-1 of the namespace bytes followed by the concatenated
\* parts; the digest is modelled by the byte string it is taken of
Uuid5Str(namespace, parts) == namespace \o Concat(parts)

\* _tuple_str: "(a, b, (c, d))"
RECURSIVE TupleStr(_)
RECURSIVE JoinTuple(_)
JoinTuple(p) ==
  IF p = <<>> THEN ""
  ELSE IF Len(p) = 1 THEN TupleStr(Head(p))
  ELSE TupleStr(Head(p)) \o ", " \o JoinTuple(Tail(p))
TupleStr(e) ==
  IF e.t = "t" THEN "(" \o JoinTuple(e.tup) \o ")"
  ELSE IF e.t = "i" THEN ToString(e.i)
  ELSE e.s

(***************************************************************************)
(* _proc_input and prepare_single_task.  _proc_input is a generator that   *)
(* prepare_single_task advances once: the call yields a value, returns     *)
(* without yielding (StopIteration), or raises.                            *)
(***************************************************************************)
Entry(k, v) == [k |-> k, v |-> v]

\* the managed values of the graph and what their producers return
ManagedKeys == {"mv"}
ManagedValue(k) == <<0>>

\* the outcomes of next(_proc_input(...))
NoError == ""
Yield(val) == [raised |-> NoError, val |-> <<val>>]
Return == [raised |-> NoError, val |-> <<>>]
Raise(exc) == [raised |-> exc, val |-> <<>>]

\* DictInput giving up on any empty channel, trigger or not
RECURSIVE DictInputStrict(_, _, _, _)
DictInputStrict(proc, chs, items, val) ==
  IF items = <<>> THEN Yield(val)
  ELSE LET it == Head(items)
       IN IF it.c \in DOMAIN chs
          THEN IF IsEmptyChannel(chs, it.c) THEN Return
               ELSE DictInputStrict(proc, chs, Tail(items),
                                    Append(val, Entry(it.k, chs[it.c])))
          ELSE IF it.k \in ManagedKeys
          THEN DictInputStrict(proc, chs, Tail(items),
                               Append(val, Entry(it.k, ManagedValue(it.k))))
          ELSE Raise("KeyError")

\* lines 859-873: proc.channels is a dict.  A trigger is read whatever it
\* holds and an empty one ends the generator (lines 862-863, 872-873); another
\* channel is read and its key skipped when it is empty (lines 864-868); a
\* name that is no channel is looked up in managed under the key k, which
\* raises KeyError when k is no managed value (lines 869-871).
RECURSIVE DictInput(_, _, _, _)
DictInput(proc, chs, items, val) ==
  IF items = <<>> THEN Yield(val)
  ELSE LET it == Head(items)
       IN IF it.c \in Range(proc.triggers)
          THEN IF IsEmptyChannel(chs, it.c) THEN Return
               ELSE DictInput(proc, chs, Tail(items), Append(val, Entry(it.k, chs[it.c])))
          ELSE IF it.c \in DOMAIN chs
          THEN IF IsEmptyChannel(chs, it.c)
               THEN DictInput(proc, chs, Tail(items), val)
               ELSE DictInput(proc, chs, Tail(items), Append(val, Entry(it.k, chs[it.c])))
          ELSE IF it.k \in ManagedKeys
          THEN DictInput(proc, chs, Tail(items), Append(val, Entry(it.k, ManagedValue(it.k))))
          ELSE Raise("KeyError")

\* lines 874-882: proc.channels is a list
RECURSIVE ListInput(_, _)
ListInput(chs, items) ==
  IF items = <<>> THEN Return
  ELSE IF IsEmptyChannel(chs, Head(items).c) THEN ListInput(chs, Tail(items))
  ELSE Yield(<<Entry("", chs[Head(items).c])>>)

\* proc.mapper(val): the mapper "tag" adds the key "mapped" to the value
ApplyMapper(mapper, val) ==
  IF mapper = "tag" THEN Append(val, Entry("mapped", <<>>)) ELSE val

\* lines 849-892: the value by the type of proc.channels, RuntimeError for a
\* type that is neither dict nor list (lines 883-886), and the mapper applied
\* to a value that is to be yielded when for_execution (lines 889-890)
ProcInput(proc, chs, for_execution) ==
  LET r == IF proc.kind = "dict" THEN DictInput(proc, chs, proc.channels, <<>>)
           ELSE IF proc.kind = "list" THEN ListInput(chs, proc.channels)
           ELSE Raise("RuntimeError")
  IN IF r.val = <<>> THEN r
     ELSE IF for_execution /\ proc.mapper # NoMapper
     THEN Yield(ApplyMapper(proc.mapper, r.val[1]))
     ELSE r

\* sorted(chan for chan in ...) over channel names
SortChans(S) == SelectSeq(ChanOrder, LAMBDA c : c \in S)

\* PullTriggers comparing the versions with the null version
PullTriggersUnseen(cp, chs, name) ==
  SortChans({c \in Range(Process(name).triggers) :
               ~IsEmptyChannel(chs, c) /\ Get(cp.channel_versions, c, 0) > 0})

\* PullTriggers with >= for >
PullTriggersMut(cp, chs, name) ==
  LET seen == Get(cp.versions_seen, name, EmptyMap)
  IN SortChans({c \in Range(Process(name).triggers) :
                  /\ ~IsEmptyChannel(chs, c)
                  /\ Get(cp.channel_versions, c, 0) >= Get(seen, c, 0)})

\* lines 735-743: the trigger channels that are available and were updated
\* since the node last saw them
PullTriggers(cp, chs, name) ==
  LET seen == Get(cp.versions_seen, name, EmptyMap)
  IN SortChans({c \in Range(Process(name).triggers) :
                  /\ ~IsEmptyChannel(chs, c)
                  /\ Get(cp.channel_versions, c, 0) > Get(seen, c, 0)})

\* the task prepare_single_task returns: a PregelExecutableTask when
\* for_execution, else a PregelTask (id, name, path)
MakeTask(id, name, path, triggers, input, for_execution) ==
  IF for_execution
  THEN <<Task(id, name, Prefix3(path), triggers, <<>>, input, Process(name).hidden)>>
  ELSE <<Task(id, name, Prefix3(path), <<>>, <<>>, <<>>, FALSE)>>

WritesFor(pending_writes, tid) == SelectSeq(pending_writes, LAMBDA w : w.tid = tid)

\* PrepareLegacyPush hashing the argument of the packet into the task id
PrepareLegacyPushArg(task_path, cp, step, for_execution) ==
  LET idx == task_path[2].i
  IN IF idx >= Len(cp.pending_sends) THEN <<>>
     ELSE LET packet == cp.pending_sends[idx + 1]
          IN IF packet.type # "send" THEN <<>>
             ELSE IF packet.node \notin Procs THEN <<>>
             ELSE MakeTask(Uuid5Str(cp.id, <<CheckpointNs(packet.node), ToString(step),
                                              packet.node, PUSH, ToString(idx),
                                              ToString(packet.arg)>>),
                           packet.node, task_path, <<PUSH>>,
                           <<Entry("", <<packet.arg>>)>>, for_execution)

\* lines 573-603: (PUSH, idx of pending send)
PrepareLegacyPush(task_path, cp, step, for_execution) ==
  LET idx == task_path[2].i
  IN IF idx >= Len(cp.pending_sends) THEN <<>>
     ELSE LET packet == cp.pending_sends[idx + 1]
          IN IF packet.type # "send" THEN <<>>
             ELSE IF packet.node \notin Procs THEN <<>>
             ELSE MakeTask(Uuid5Str(cp.id, <<CheckpointNs(packet.node), ToString(step),
                                              packet.node, PUSH, ToString(idx)>>),
                           packet.node, task_path, <<PUSH>>,
                           <<Entry("", <<packet.arg>>)>>, for_execution)

\* lines 604-640: (PUSH, parent task path, idx of PUSH write, id of parent task)
PrepareNewPush(task_path, cp, pending_writes, step, for_execution) ==
  LET writes_for_path == WritesFor(pending_writes, task_path[4].s)
      idx == task_path[3].i
  IN IF idx >= Len(writes_for_path) THEN <<>>
     ELSE LET packet == writes_for_path[idx + 1].val
          IN IF packet.type = "none" THEN <<>>
             ELSE IF packet.type # "send" THEN <<>>
             ELSE IF packet.node \notin Procs THEN <<>>
             ELSE MakeTask(Uuid5Str(cp.id, <<CheckpointNs(packet.node), ToString(step),
                                              packet.node, PUSH, TupleStr(task_path[2]),
                                              ToString(idx)>>),
                           packet.node, task_path, <<PUSH>>,
                           <<Entry("", <<packet.arg>>)>>, for_execution)

\* lines 723-846: (PULL, node name)
PreparePull(task_path, cp, chs, step, for_execution) ==
  LET name == task_path[2].s
  IN IF name \notin Procs THEN <<>>
     ELSE IF DOMAIN cp.channel_versions = {} THEN <<>>
     ELSE LET triggers == PullTriggers(cp, chs, name)
              r == ProcInput(Process(name), chs, for_execution)
          IN IF triggers = <<>> THEN <<>>
             ELSE IF r.val = <<>> THEN <<>>
             ELSE MakeTask(Uuid5Str(cp.id, <<CheckpointNs(name), ToString(step),
                                              name, PULL>> \o triggers),
                           name, task_path, triggers, r.val[1], for_execution)

\* lines 750-756: an exception of _proc_input other than StopIteration leaves
\* prepare_single_task, with a note added
PreparePullRaises(task_path, cp, chs, for_execution) ==
  LET name == task_path[2].s
  IN /\ name \in Procs
     /\ DOMAIN cp.channel_versions # {}
     /\ PullTriggers(cp, chs, name) # <<>>
     /\ ProcInput(Process(name), chs, for_execution).raised # NoError

PrepareSingleTaskRaises(task_path, cp, chs, for_execution) ==
  task_path[1] = PS(PULL) /\ PreparePullRaises(task_path, cp, chs, for_execution)

PrepareSingleTask(task_path, cp, pending_writes, chs, step, for_execution) ==
  IF task_path[1] = PS(PUSH)
  THEN IF Len(task_path) = 2
       THEN PrepareLegacyPush(task_path, cp, step, for_execution)
       ELSE IF Len(task_path) >= 4
       THEN PrepareNewPush(task_path, cp, pending_writes, step, for_execution)
       ELSE <<>>
  ELSE IF task_path[1] = PS(PULL)
  THEN PreparePull(task_path, cp, chs, step, for_execution)
  ELSE <<>>

\* task_id_checksum = None
NoChecksum == ""

\* ChecksumFails never failing
ChecksumFailsMut(task_id, task_id_checksum) == FALSE

\* lines 652-653 and 775-776: assert task_id == task_id_checksum
ChecksumFails(task_id, task_id_checksum) ==
  task_id_checksum # NoChecksum /\ task_id # task_id_checksum

\* prepare_single_task(task_path, task_id_checksum, ...): PrepareSingleTask is
\* the call with the checksum None that prepare_next_tasks makes.  The id is
\* compared with the checksum once every test that returns None has passed.
PrepareSingleTaskChecked(task_path, task_id_checksum, cp, pending_writes, chs, step, for_execution) ==
  LET r == PrepareSingleTask(task_path, cp, pending_writes, chs, step, for_execution)
      failed == \/ PrepareSingleTaskRaises(task_path, cp, chs, for_execution)
                \/ r # <<>> /\ ChecksumFails(r[1].id, task_id_checksum)
  IN [raised |-> failed, task |-> IF failed THEN <<>> ELSE r]

(***************************************************************************)
(* prepare_next_tasks                                                      *)
(***************************************************************************)
\* LegacyPass preparing nothing from pending_sends
LegacyPassMut(idx, cp, step, for_execution) == <<>>

\* lines 367-383: one legacy PUSH task per index into pending_sends
RECURSIVE LegacyPass(_, _, _, _)
LegacyPass(idx, cp, step, for_execution) ==
  IF idx >= Len(cp.pending_sends) THEN <<>>
  ELSE PrepareSingleTask(<<PS(PUSH), PI(idx)>>, cp, <<>>, <<>>, step, for_execution)
       \o LegacyPass(idx + 1, cp, step, for_execution)

\* lines 386-402: one PULL candidate per registered process, in dict order
RECURSIVE PullPass(_, _, _, _, _)
PullPass(names, cp, chs, step, for_execution) ==
  IF names = <<>> THEN <<>>
  ELSE PrepareSingleTask(<<PS(PULL), PS(Head(names))>>, cp, <<>>, chs, step, for_execution)
       \o PullPass(Tail(names), cp, chs, step, for_execution)

\* lines 406-408: the task ids of pending_writes in order of first occurrence
RECURSIVE GroupOrder(_, _)
GroupOrder(pending_writes, acc) ==
  IF pending_writes = <<>> THEN acc
  ELSE GroupOrder(Tail(pending_writes),
                  IF Head(pending_writes).tid \in Range(acc) THEN acc
                  ELSE Append(acc, Head(pending_writes).tid))

\* SendTasks giving up on the writes of tid at the first packet it cannot
\* turn into a task
RECURSIVE SendTasksMut(_, _, _, _, _, _, _)
SendTasksMut(parent_path, tid, idx, cp, pending_writes, step, for_execution) ==
  LET twrites == WritesFor(pending_writes, tid)
  IN IF idx >= Len(twrites) THEN <<>>
     ELSE IF twrites[idx + 1].chan # PUSH
     THEN SendTasksMut(parent_path, tid, idx + 1, cp, pending_writes, step, for_execution)
     ELSE LET next_task == PrepareSingleTask(<<PS(PUSH), PT(parent_path), PI(idx), PS(tid)>>,
                                             cp, pending_writes, <<>>, step, for_execution)
          IN IF next_task = <<>> THEN <<>>
             ELSE next_task \o SendTasksMut(parent_path, tid, idx + 1, cp, pending_writes,
                                            step, for_execution)

\* lines 415-433 and 440-458: a PUSH task per PUSH write of tid, in write order
RECURSIVE SendTasks(_, _, _, _, _, _, _)
SendTasks(parent_path, tid, idx, cp, pending_writes, step, for_execution) ==
  LET twrites == WritesFor(pending_writes, tid)
  IN IF idx >= Len(twrites) THEN <<>>
     ELSE (IF twrites[idx + 1].chan # PUSH THEN <<>>
           ELSE PrepareSingleTask(<<PS(PUSH), PT(parent_path), PI(idx), PS(tid)>>,
                                  cp, pending_writes, <<>>, step, for_execution))
          \o SendTasks(parent_path, tid, idx + 1, cp, pending_writes, step, for_execution)

\* PopGroup leaving the group where it is
KeepGroup(grouped, tid) == grouped

\* line 414: grouped_by_task.pop(task.id, None) takes the group of the task
\* out of the groups still to be claimed
PopGroup(grouped, tid) == SelectSeq(grouped, LAMBDA g : g # tid)

\* lines 411-434: the pass over the growing task list
RECURSIVE ExpandPass(_, _, _, _, _, _, _)
ExpandPass(tasks, tidx, grouped, cp, pending_writes, step, for_execution) ==
  IF tidx > Len(tasks) THEN [tasks |-> tasks, grouped |-> grouped]
  ELSE LET task == tasks[tidx]
       IN IF task.id \in Range(grouped)
          THEN ExpandPass(tasks \o SendTasks(task.path, task.id, 0, cp, pending_writes,
                                             step, for_execution),
                          tidx + 1,
                          PopGroup(grouped, task.id),
                          cp, pending_writes, step, for_execution)
          ELSE ExpandPass(tasks, tidx + 1, grouped, cp, pending_writes, step, for_execution)

\* task_map[t.id] = t: a dict keeps the position of a key's first insertion
DictPut(task_map, t) ==
  IF \E i \in DOMAIN task_map : task_map[i].id = t.id
  THEN [i \in DOMAIN task_map |-> IF task_map[i].id = t.id THEN t ELSE task_map[i]]
  ELSE Append(task_map, t)

RECURSIVE DictPutAll(_, _)
DictPutAll(task_map, ts) ==
  IF ts = <<>> THEN task_map ELSE DictPutAll(DictPut(task_map, Head(ts)), Tail(ts))

\* lines 438-458: the groups no prepared task claimed (eg. from update_state)
RECURSIVE OrphanPass(_, _, _, _, _, _)
OrphanPass(task_map, grouped, cp, pending_writes, step, for_execution) ==
  IF grouped = <<>> THEN task_map
  ELSE LET tid == Head(grouped)
           found == {i \in DOMAIN task_map : task_map[i].id = tid}
           parent_path == IF found = {} THEN <<>>
                          ELSE task_map[CHOOSE i \in found : TRUE].path
       IN OrphanPass(DictPutAll(task_map,
                                SendTasks(parent_path, tid, 0, cp, pending_writes,
                                          step, for_execution)),
                     Tail(grouped), cp, pending_writes, step, for_execution)

\* lines 365-461: the returned task map as the sequence of its values, in
\* dict order
TaskMap(cp, pending_writes, chs, step, for_execution) ==
  LET tasks == LegacyPass(0, cp, step, for_execution)
               \o PullPass(ProcOrder, cp, chs, step, for_execution)
  IN IF \E i \in DOMAIN pending_writes : pending_writes[i].chan = PUSH
     THEN LET ex == ExpandPass(tasks, 1, GroupOrder(pending_writes, <<>>),
                               cp, pending_writes, step, for_execution)
          IN OrphanPass(DictPutAll(<<>>, ex.tasks), ex.grouped,
                        cp, pending_writes, step, for_execution)
     ELSE DictPutAll(<<>>, tasks)

\* prepare_next_tasks emptying the pending sends it has turned into tasks
PrepareNextTasksMut(cp, pending_writes, chs, step, for_execution) ==
  [raised |-> FALSE,
   tasks |-> TaskMap(cp, pending_writes, chs, step, for_execution),
   checkpoint |-> [cp EXCEPT !.pending_sends = <<>>], channels |-> chs]

\* lines 386-402: the call of prepare_single_task for a PULL candidate raises
\* and the exception leaves prepare_next_tasks
PrepareNextTasksRaises(cp, chs, for_execution) ==
  \E name \in Procs :
    PrepareSingleTaskRaises(<<PS(PULL), PS(name)>>, cp, chs, for_execution)

\* The whole call: the task map it returns, with the checkpoint and the
\* channels as the call leaves them (it only reads them).
PrepareNextTasks(cp, pending_writes, chs, step, for_execution) ==
  LET failed == PrepareNextTasksRaises(cp, chs, for_execution)
  IN [raised |-> failed,
      tasks |-> IF failed THEN <<>>
                ELSE TaskMap(cp, pending_writes, chs, step, for_execution),
      checkpoint |-> cp, channels |-> chs]

(***************************************************************************)
(* should_interrupt                                                        *)
(***************************************************************************)
\* lines 134-137
AnyUpdatesSincePrevInterrupt(cp) ==
  LET seen == Get(cp.versions_seen, INTERRUPT, EmptyMap)
  IN \E c \in DOMAIN cp.channel_versions : cp.channel_versions[c] > Get(seen, c, 0)

\* should_interrupt without the test on any_updates_since_prev_interrupt
ShouldInterruptUngated(cp, interrupt_nodes, tasks) ==
  SelectSeq(tasks, LAMBDA t :
    IF interrupt_nodes.all THEN ~t.hidden ELSE t.name \in interrupt_nodes.names)

\* should_interrupt selecting every task under "*", hidden or not
ShouldInterruptAll(cp, interrupt_nodes, tasks) ==
  IF AnyUpdatesSincePrevInterrupt(cp)
  THEN SelectSeq(tasks, LAMBDA t :
         IF interrupt_nodes.all THEN TRUE ELSE t.name \in interrupt_nodes.names)
  ELSE <<>>

\* lines 139-154; interrupt_nodes is "*" (all |-> TRUE) or a list of names
ShouldInterrupt(cp, interrupt_nodes, tasks) ==
  IF AnyUpdatesSincePrevInterrupt(cp)
  THEN SelectSeq(tasks, LAMBDA t :
         IF interrupt_nodes.all THEN ~t.hidden ELSE t.name \in interrupt_nodes.names)
  ELSE <<>>

(***************************************************************************)
(* local_write                                                             *)
(***************************************************************************)
\* lines 205-210: some write of the batch makes local_write raise
LocalWriteRaises(writes) ==
  \E i \in DOMAIN writes :
    /\ writes[i].chan \in {PUSH, TASKS}
    /\ writes[i].val.type # "none"
    /\ (writes[i].val.type # "send" \/ writes[i].val.node \notin Procs)

\* LocalWrite committing the first write of a batch before it validates the rest
LocalWritePartial(buffer, writes) ==
  IF LocalWriteRaises(writes)
  THEN IF LocalWriteRaises(<<writes[1]>>) THEN buffer ELSE Append(buffer, writes[1])
  ELSE buffer \o writes

\* lines 205-211 with commit = writes.extend: the buffer after the call
LocalWrite(buffer, writes) == IF LocalWriteRaises(writes) THEN buffer ELSE buffer \o writes

\* Commit on one deque shared by all the tasks of the step
CommitShared(ts, i, writes) ==
  [j \in DOMAIN ts |-> [ts[j] EXCEPT !.writes = LocalWrite(@, writes)]]

\* lines 659 and 777-815: each executable task is built with a deque of its own
\* and its writer is local_write with commit = that deque's extend.  The tasks
\* of the step after task i's writer is called with the batch.
Commit(ts, i, writes) == [ts EXCEPT ![i].writes = LocalWrite(@, writes)]

(***************************************************************************)
(* local_read                                                              *)
(***************************************************************************)
\* read_channels(channels, select): for a single name the value of the channel
\* (None, here the empty sequence, when it is empty); for a list the mapping
\* of the names whose channel is not empty, in list order
RECURSIVE ReadList(_, _)
ReadList(chs, keys) ==
  IF keys = <<>> THEN <<>>
  ELSE (IF IsEmptyChannel(chs, Head(keys)) THEN <<>>
        ELSE <<Entry(Head(keys), chs[Head(keys)])>>)
       \o ReadList(chs, Tail(keys))

ReadChannels(chs, select) ==
  IF select.single THEN <<Entry(select.keys[1], chs[select.keys[1]])>>
  ELSE ReadList(chs, select.keys)

\* lines 171-182: the selected channels the task has written to
UpdatedBy(task, select) ==
  LET written == {task.writes[k].chan : k \in DOMAIN task.writes}
      keys == IF select.single THEN Range(select.keys)
              ELSE {k \in Range(select.keys) : k \notin ManagedKeys}
  IN keys \cap written

\* LocalRead applying the task's writes whether or not fresh is asked for
LocalReadFresh(step, cp, chs, task, select, fresh) ==
  LET keys == IF select.single THEN select.keys
              ELSE SelectSeq(select.keys, LAMBDA k : k \notin ManagedKeys)
      managed_keys == IF select.single THEN <<>>
                      ELSE SelectSeq(select.keys, LAMBDA k : k \in ManagedKeys)
      updated == UpdatedBy(task, select)
      local_channels == ApplyWrites(cp, [c \in updated |-> chs[c]], <<task>>, FALSE).channels
      merged == [c \in DOMAIN chs |-> IF c \in updated THEN local_channels[c] ELSE chs[c]]
      values == IF updated # {}
                THEN ReadChannels(merged, [select EXCEPT !.keys = keys])
                ELSE ReadChannels(chs, [select EXCEPT !.keys = keys])
  IN values
       \o [k \in DOMAIN managed_keys |-> Entry(managed_keys[k], ManagedValue(managed_keys[k]))]

\* lines 157-195.  select is a name (single) or a list of names.  With fresh,
\* copies of the channels the task wrote to get the task's writes applied
\* (apply_writes on a copy of the checkpoint, without next_version) and are
\* read in place of the shared ones.
LocalRead(step, cp, chs, task, select, fresh) ==
  LET keys == IF select.single THEN select.keys
              ELSE SelectSeq(select.keys, LAMBDA k : k \notin ManagedKeys)
      managed_keys == IF select.single THEN <<>>
                      ELSE SelectSeq(select.keys, LAMBDA k : k \in ManagedKeys)
      updated == UpdatedBy(task, select)
      local_channels == ApplyWrites(cp, [c \in updated |-> chs[c]], <<task>>, FALSE).channels
      merged == [c \in DOMAIN chs |-> IF c \in updated THEN local_channels[c] ELSE chs[c]]
      values == IF fresh /\ updated # {}
                THEN ReadChannels(merged, [select EXCEPT !.keys = keys])
                ELSE ReadChannels(chs, [select EXCEPT !.keys = keys])
  IN values
       \o [k \in DOMAIN managed_keys |-> Entry(managed_keys[k], ManagedValue(managed_keys[k]))]

\* copy_checkpoint and ChannelsManager are imported by algo.py.  What the
\* copy shares with the checkpoint it is taken of, and whether the channels
\* the manager yields are the objects it is handed, is theirs to decide:
\*   "top"        the copy is a new mapping over the containers of the original
\*   "containers" channel_versions, versions_seen and pending_sends are
\*                copied, the mappings inside versions_seen are shared
\*   "nested"     the mappings inside versions_seen are copied too
\*   "own"        the manager yields channel objects of its own
\*   "handed"     the manager yields the channel objects it is handed
CopyDepths == {"top", "containers", "nested"}
Managers == {"own", "handed"}

\* lines 182-193: the checkpoint and the channels the tasks share, as a call
\* of local_read leaves them.  apply_writes is run on the copy and on the
\* local channels (line 190); what it does to them reaches the shared state
\* through the parts they have in common.
LocalReadShared(step, cp, chs, task, select, fresh, depth, manager) ==
  LET updated == UpdatedBy(task, select)
      r == ApplyWrites(cp, [c \in updated |-> chs[c]], <<task>>, FALSE)
  IN IF fresh /\ updated # {}
     THEN [checkpoint |->
             IF depth = "top" THEN r.checkpoint
             ELSE IF depth = "containers"
             THEN [cp EXCEPT !.versions_seen =
                     [n \in DOMAIN @ |-> r.checkpoint.versions_seen[n]]]
             ELSE cp,
           channels |->
             IF manager = "handed"
             THEN [c \in DOMAIN chs |-> IF c \in updated THEN r.channels[c] ELSE chs[c]]
             ELSE chs]
     ELSE [checkpoint |-> cp, channels |-> chs]

\* the shared states a call may leave, over the ways of sharing
LocalReadOutcomes(step, cp, chs, task, select, fresh) ==
  {LocalReadShared(step, cp, chs, task, select, fresh, depth, manager) :
     depth \in CopyDepths, manager \in Managers}

(***************************************************************************)
(* The plan / execute / apply loop.                                        *)
(*   checkpoint, channels : the shared state                               *)
(*   step                 : the superstep number                           *)
(*   pending_writes       : (task id, channel, value) saved for this step  *)
(*   tasks                : the task map of the step being executed        *)
(*   phase                : "plan", "input", "exec" or "failed"            *)
(*   scan                 : the position of a planner call taken stepwise  *)
(*   applies              : apply_writes calls made so far                 *)
(*   last                 : the last call: its name and what it reported   *)
(***************************************************************************)
VARIABLES checkpoint, channels, step, pending_writes, tasks, phase, applies, last, scan

vars == <<checkpoint, channels, step, pending_writes, tasks, phase, applies, last, scan>>

\* scan is the position of a prepare_next_tasks call followed statement by
\* statement through its passes over the pending writes: the index into the
\* task list, the groups of writes not yet claimed, and the count of PUSH
\* tasks prepared so far.  It stays NoScan where the call is taken as a whole.
NoScan == [tidx |-> 0, grouped |-> <<>>, created |-> 0]

CheckpointId == NULL_TASK_ID

NoCalls == [c \in Chans |-> <<>>]

\* the arguments and the result of a call made on behalf of one task
NoCall ==
  [writer |-> 0, batch |-> <<>>,
   select |-> [single |-> FALSE, keys |-> <<>>], fresh |-> FALSE, values |-> <<>>,
   path |-> <<>>, checksum |-> NoChecksum, for_execution |-> FALSE, task |-> <<>>]

Last(op, res) ==
  [op |-> op, raised |-> res.raised, bump_step |-> res.bump_step,
   managed |-> res.managed, update_calls |-> res.update_calls,
   consumed |-> res.consumed, drained |-> res.drained, changed |-> res.changed,
   call |-> NoCall]

NoResult ==
  [raised |-> FALSE, bump_step |-> FALSE, managed |-> EmptyMap,
   update_calls |-> NoCalls, consumed |-> {}, drained |-> {}, changed |-> {}]

\* what graph input may write through the null task
InputWrites ==
  {Write("in", Val(v)) : v \in Vals}
    \cup {Write(TASKS, Send("B", v)) : v \in Vals}
    \cup {Write(TASKS, Send("Z", v)) : v \in Vals}
    \cup {Write(TASKS, Val(v)) : v \in Vals}

\* what the body of each node may send through its writer
NodeWrites(name) ==
  CASE name = "A" -> {Write("mid", Val(v)) : v \in Vals}
                       \cup {Write(TASKS, Send("B", v)) : v \in Vals}
                       \cup {Write(PUSH, Send("B", v)) : v \in Vals}
    [] name = "B" -> {Write("mv", Val(v)) : v \in Vals}
                       \cup {Write(PUSH, Send("C", v)) : v \in Vals}
                       \cup {Write(PUSH, Send("Z", v)) : v \in Vals}
    [] OTHER      -> {Write("out", Val(v)) : v \in Vals}
                       \cup {Write(TASKS, Val(v)) : v \in Vals}

StepWrites(ts) == Len(FlatWrites(ts))

Init ==
  /\ checkpoint = Checkpoint(CheckpointId, EmptyMap, EmptyMap, <<>>)
  /\ channels = [c \in Chans |-> <<>>]
  /\ step = 0
  /\ pending_writes = <<>>
  /\ tasks = <<>>
  /\ phase = "plan"
  /\ applies = 0
  /\ last = Last("init", NoResult)
  /\ scan = NoScan

\* graph input arrives: the driver wraps it in the null task
ReceiveInput ==
  /\ phase = "plan"
  /\ applies < MaxApplies
  /\ \E w \in InputWrites : tasks' = <<NullTask(<<w>>)>>
  /\ phase' = "input"
  /\ last' = Last("input", NoResult)
  /\ UNCHANGED <<checkpoint, channels, step, pending_writes, applies>>
  /\ UNCHANGED scan

\* the driver applies graph input: apply_writes on the null task alone
ApplyInput ==
  /\ phase = "input"
  /\ LET r == ApplyWrites(checkpoint, channels, tasks, TRUE)
     IN /\ checkpoint' = r.checkpoint
        /\ channels' = r.channels
        /\ last' = Last("apply", r)
  /\ applies' = applies + 1
  /\ tasks' = <<>>
  /\ phase' = "plan"
  /\ UNCHANGED <<step, pending_writes>>
  /\ UNCHANGED scan

\* what update_state may save under the null task id: a Send, or a Send
\* after a packet that is no Send and a Send to a node that is not registered
NullWrite(v) == [tid |-> NULL_TASK_ID, chan |-> PUSH, val |-> v]
UpdateBatches ==
  UNION {{<<NullWrite(Send("A", v))>>,
          <<NullWrite(Val(v)), NullWrite(Send("Z", v)), NullWrite(Send("A", v))>>}
         : v \in Vals}

\* update_state saves writes under the null task id
UpdateState ==
  /\ phase = "plan"
  /\ pending_writes = <<>>
  /\ applies < MaxApplies
  /\ \E batch \in UpdateBatches : pending_writes' = batch
  /\ last' = Last("update_state", NoResult)
  /\ UNCHANGED <<checkpoint, channels, step, tasks, phase, applies>>
  /\ UNCHANGED scan

\* the driver plans the next superstep
Plan ==
  /\ phase = "plan"
  /\ LET r == PrepareNextTasks(checkpoint, pending_writes, channels, step, TRUE)
     IN /\ tasks' = r.tasks
        /\ checkpoint' = r.checkpoint
        /\ channels' = r.channels
        /\ phase' = IF r.raised THEN "failed"
                    ELSE IF r.tasks = <<>> THEN "plan" ELSE "exec"
        /\ last' = [Last("prepare", NoResult) EXCEPT !.raised = r.raised]
  /\ UNCHANGED <<step, pending_writes, applies>>
  /\ UNCHANGED scan

\* the body of a task sends one write through its injected writer
TaskWrite ==
  /\ phase = "exec"
  /\ StepWrites(tasks) < MaxStepWrites
  /\ applies < MaxApplies
  /\ \E i \in DOMAIN tasks : \E w \in NodeWrites(tasks[i].name) :
       /\ tasks' = Commit(tasks, i, <<w>>)
       /\ last' = [Last("local_write", NoResult)
                     EXCEPT !.raised = LocalWriteRaises(<<w>>),
                            !.call = [NoCall EXCEPT !.writer = i, !.batch = <<w>>]]
  /\ UNCHANGED <<checkpoint, channels, step, pending_writes, phase, applies>>
  /\ UNCHANGED scan

\* the writes of the tasks as the checkpointer hands them back, group by group
RECURSIVE SavedWrites(_)
SavedWrites(ts) ==
  IF ts = <<>> THEN <<>>
  ELSE [i \in DOMAIN Head(ts).writes |->
          [tid |-> Head(ts).id, chan |-> Head(ts).writes[i].chan,
           val |-> Head(ts).writes[i].val]]
       \o SavedWrites(Tail(ts))

\* the buffer of a task that already ran is refilled from its saved writes
Refill(ts, old) ==
  [i \in DOMAIN ts |->
     IF \E j \in DOMAIN old : old[j].id = ts[i].id
     THEN [ts[i] EXCEPT !.writes = old[CHOOSE j \in DOMAIN old : old[j].id = ts[i].id].writes]
     ELSE ts[i]]

\* the run is resumed within the step: the writes made so far are saved as
\* pending writes, task by task after those of the null task, and the step is
\* planned again
Resume ==
  /\ phase = "exec"
  /\ \E i \in DOMAIN tasks : \E j \in DOMAIN tasks[i].writes : tasks[i].writes[j].chan = PUSH
  /\ LET pw == WritesFor(pending_writes, NULL_TASK_ID) \o SavedWrites(tasks)
         r == PrepareNextTasks(checkpoint, pw, channels, step, TRUE)
     IN /\ pw # pending_writes
        /\ pending_writes' = pw
        /\ tasks' = Refill(r.tasks, tasks)
        /\ checkpoint' = r.checkpoint
        /\ channels' = r.channels
        /\ phase' = IF r.raised THEN "failed" ELSE phase
        /\ last' = [Last("prepare", NoResult) EXCEPT !.raised = r.raised]
  /\ UNCHANGED <<step, applies>>
  /\ UNCHANGED scan

\* the driver checks for an interrupt before the tasks run and, when one is
\* due, records the versions the interrupt has seen
InterruptOptions == {[all |-> TRUE, names |-> {}], [all |-> FALSE, names |-> {"A"}]}

Interrupt ==
  /\ phase = "exec"
  /\ StepWrites(tasks) = 0
  /\ \E nodes \in InterruptOptions :
       /\ ShouldInterrupt(checkpoint, nodes, tasks) # <<>>
       /\ checkpoint' = [checkpoint EXCEPT !.versions_seen =
                           Put(@, INTERRUPT, checkpoint.channel_versions)]
  /\ tasks' = <<>>
  /\ phase' = "plan"
  /\ last' = Last("interrupt", NoResult)
  /\ UNCHANGED <<channels, step, pending_writes, applies>>
  /\ UNCHANGED scan

\* the superstep ends: apply_writes on the tasks of the step, in dict order
ApplyStep ==
  /\ phase = "exec"
  /\ applies < MaxApplies
  /\ LET r == ApplyWrites(checkpoint, channels, tasks, TRUE)
     IN /\ checkpoint' = r.checkpoint
        /\ channels' = r.channels
        /\ phase' = IF r.raised THEN "failed" ELSE "plan"
        /\ last' = Last("apply", r)
  /\ step' = step + 1
  /\ applies' = applies + 1
  /\ tasks' = <<>>
  /\ pending_writes' = <<>>
  /\ UNCHANGED scan

Next == ReceiveInput \/ ApplyInput \/ UpdateState \/ Plan \/ TaskWrite \/ Resume \/ Interrupt \/ ApplyStep

Spec == Init /\ [][Next]_vars

(***************************************************************************)
(* apply_writes on the task set of a resumed step.  The step starts from   *)
(* the checkpoint graph input leaves (channel "in" written once); the      *)
(* saved writes are a Send to A under the null task id and the Send to B   *)
(* that A's task made, handed back in either order of their task ids.  The *)
(* bodies then write at will and the step is applied.                      *)
(***************************************************************************)
\* writes the bodies add after the resume
MaxPermWrites == 2

PermCheckpoint ==
  Checkpoint(CheckpointId, [c \in {"in"} |-> 1], [n \in {INPUT} |-> EmptyMap], <<>>)
PermChannels == [c \in Chans |-> IF c = "in" THEN <<1>> ELSE <<>>]

PermNullWrites == <<[tid |-> NULL_TASK_ID, chan |-> PUSH, val |-> Send("A", 1)]>>
PermSentTaskId == Uuid5Str(CheckpointId, <<"A", "0", "A", PUSH, "()", "0">>)
PermTaskWrites == <<[tid |-> PermSentTaskId, chan |-> PUSH, val |-> Send("B", 1)]>>

\* the buffers of the planned tasks, refilled from the saved writes
RefillSaved(ts, pw) ==
  [i \in DOMAIN ts |->
     [ts[i] EXCEPT !.writes =
        [j \in DOMAIN WritesFor(pw, ts[i].id) |->
           Write(WritesFor(pw, ts[i].id)[j].chan, WritesFor(pw, ts[i].id)[j].val)]]]

PermWrites ==
  {Write("mid", Val(1)), Write("mid", Val(2)), Write("mv", Val(1)),
   Write(TASKS, Send("B", 1))}

SavedCount(pw) == Len(SelectSeq(pw, LAMBDA w : w.tid # NULL_TASK_ID))

InitPerm ==
  /\ checkpoint = PermCheckpoint
  /\ channels = PermChannels
  /\ step = 0
  /\ pending_writes \in {PermNullWrites \o PermTaskWrites, PermTaskWrites \o PermNullWrites}
  /\ tasks = RefillSaved(PrepareNextTasks(checkpoint, pending_writes, channels, step,
                                          TRUE).tasks, pending_writes)
  /\ phase = "exec"
  /\ applies = 1
  /\ last = Last("prepare", NoResult)
  /\ scan = NoScan

\* the body of any task sends one write through its injected writer
TaskWritePerm ==
  /\ phase = "exec"
  /\ StepWrites(tasks) - SavedCount(pending_writes) < MaxPermWrites
  /\ \E i \in DOMAIN tasks : \E w \in PermWrites :
       /\ tasks' = Commit(tasks, i, <<w>>)
       /\ last' = [Last("local_write", NoResult)
                     EXCEPT !.raised = LocalWriteRaises(<<w>>),
                            !.call = [NoCall EXCEPT !.writer = i, !.batch = <<w>>]]
  /\ UNCHANGED <<checkpoint, channels, step, pending_writes, phase, applies>>
  /\ UNCHANGED scan

NextPerm == TaskWritePerm \/ ApplyStep

SpecPerm == InitPerm /\ [][NextPerm]_vars

(***************************************************************************)
(* One superstep seen from the task bodies.  The step is planned on the    *)
(* checkpoint graph input leaves, with or without a Send pending from the  *)
(* input and with or without a Send saved by update_state.  The bodies     *)
(* call their writers with batches of writes and their readers, in any     *)
(* interleaving; tasks are prepared again from their paths with a checksum *)
(* of their id, as on replay; the step is applied.                         *)
(***************************************************************************)
\* writes in one batch handed to a writer
MaxBatch == 2
\* writes buffered in the step before the bodies stop calling their writers
MaxBuffered == 3

\* the ids of a task map
Ids(ts) == {ts[i].id : i \in DOMAIN ts}

RECURSIVE ApplyInputs(_, _, _)
ApplyInputs(cp, chs, ws) ==
  IF ws = <<>> THEN [checkpoint |-> cp, channels |-> chs]
  ELSE LET r == ApplyWrites(cp, chs, <<NullTask(<<Head(ws)>>)>>, TRUE)
       IN ApplyInputs(r.checkpoint, r.channels, Tail(ws))

\* the state graph input leaves: an optional Send to B, then a value for "in"
AfterInput(with_send) ==
  ApplyInputs(Checkpoint(CheckpointId, EmptyMap, EmptyMap, <<>>), [c \in Chans |-> <<>>],
              (IF with_send THEN <<Write(TASKS, Send("B", 1))>> ELSE <<>>)
                \o <<Write("in", Val(1))>>)

BodyWrites ==
  {Write("mid", Val(1)), Write(PUSH, Send("B", 1)), Write(PUSH, Send("Z", 1)),
   Write(TASKS, Val(1)), Write(PUSH, None)}

RECURSIVE BatchesOf(_)
BatchesOf(n) ==
  IF n = 0 THEN {<<>>}
  ELSE {<<w>> \o b : w \in BodyWrites, b \in BatchesOf(n - 1)}
Batches == UNION {BatchesOf(n) : n \in 1..MaxBatch}

Selects ==
  {[single |-> TRUE, keys |-> <<"mid">>], [single |-> FALSE, keys |-> <<"mid">>],
   [single |-> FALSE, keys |-> <<"in", "mid">>], [single |-> FALSE, keys |-> <<"out", "in">>],
   [single |-> FALSE, keys |-> <<"mid", "mv">>]}

ReplayPaths ==
  {<<PS(PUSH), PI(0)>>, <<PS(PUSH), PI(1)>>,
   <<PS(PULL), PS("A")>>, <<PS(PULL), PS("C")>>, <<PS(PULL), PS("Z")>>,
   <<PS(PUSH), PT(<<>>), PI(0), PS(NULL_TASK_ID)>>,
   <<PS(PUSH), PT(<<>>), PI(1), PS(NULL_TASK_ID)>>,
   <<PS(PUSH), PT(<<>>), PI(0)>>}

\* the checksums a replay may carry: none, the id of a task of the step, or
\* an id no task has
Checksums(ts) == {NoChecksum, "ffffffff-ffff-ffff-ffff-ffffffffffff"} \cup Ids(ts)

InitTask ==
  /\ \E with_send \in BOOLEAN :
       /\ checkpoint = AfterInput(with_send).checkpoint
       /\ channels = AfterInput(with_send).channels
       /\ pending_writes \in (IF with_send THEN {<<>>} ELSE {<<>>, PermNullWrites})
  /\ step = 0
  /\ tasks = PrepareNextTasks(checkpoint, pending_writes, channels, step, TRUE).tasks
  /\ phase = "exec"
  /\ applies = 2
  /\ last = Last("prepare", NoResult)
  /\ scan = NoScan

\* the body of a task calls its writer with a batch of writes
WriteBatch ==
  /\ phase = "exec"
  /\ StepWrites(tasks) < MaxBuffered
  /\ \E i \in DOMAIN tasks : \E b \in Batches :
       /\ tasks' = Commit(tasks, i, b)
       /\ last' = [Last("local_write", NoResult)
                     EXCEPT !.raised = LocalWriteRaises(b),
                            !.call = [NoCall EXCEPT !.writer = i, !.batch = b]]
  /\ UNCHANGED <<checkpoint, channels, step, pending_writes, phase, applies>>
  /\ UNCHANGED scan

\* the body of a task calls its reader, under any of the ways the copy and
\* the local channels may share with the originals
ReadState ==
  /\ phase = "exec"
  /\ \E i \in DOMAIN tasks : \E select \in Selects : \E fresh \in BOOLEAN :
     \E shared \in LocalReadOutcomes(step, checkpoint, channels, tasks[i], select, fresh) :
       /\ last' = [Last("local_read", NoResult)
                     EXCEPT !.call = [NoCall EXCEPT
                       !.writer = i, !.select = select, !.fresh = fresh,
                       !.values = LocalRead(step, checkpoint, channels, tasks[i],
                                            select, fresh)]]
       /\ checkpoint' = shared.checkpoint
       /\ channels' = shared.channels
  /\ UNCHANGED <<step, pending_writes, tasks, phase, applies>>
  /\ UNCHANGED scan

\* before the bodies run, a task is prepared again from its path, with the id
\* it had as checksum
Replay ==
  /\ phase = "exec"
  /\ StepWrites(tasks) = 0
  /\ \E path \in ReplayPaths : \E sum \in Checksums(tasks) : \E for_execution \in BOOLEAN :
       LET r == PrepareSingleTaskChecked(path, sum, checkpoint, pending_writes, channels,
                                         step, for_execution)
       IN last' = [Last("prepare_single", NoResult)
                     EXCEPT !.raised = r.raised,
                            !.call = [NoCall EXCEPT
                              !.path = path, !.checksum = sum,
                              !.for_execution = for_execution, !.task = r.task]]
  /\ UNCHANGED <<checkpoint, channels, step, pending_writes, tasks, phase, applies>>
  /\ UNCHANGED scan

NextTask == WriteBatch \/ ReadState \/ Replay \/ ApplyStep

SpecTask == InitTask /\ [][NextTask]_vars

(***************************************************************************)
(* prepare_next_tasks followed statement by statement through its passes   *)
(* over the pending writes (lines 403-461).  The call starts from the      *)
(* state graph input leaves, with the list of legacy PUSH and PULL tasks   *)
(* already prepared, and is handed pending writes saved under the null     *)
(* task id, under the id of a prepared task, and under the ids of PUSH     *)
(* tasks the passes themselves prepare.  phase is "expand" in the while    *)
(* loop, "orphans" in the loop over the remaining groups, and "returned".  *)
(***************************************************************************)
\* pending writes handed to the call
MaxPending == 3

\* the id of the PUSH task prepared for a Send to node at write idx of a
\* task with the path parent
PushId(cp, node, parent, idx) ==
  Uuid5Str(cp.id, <<CheckpointNs(node), "0", node, PUSH, TupleStr(PT(parent)), ToString(idx)>>)

\* the ids pending writes are saved under: the null task, the PULL task of A,
\* the PUSH task a first Send of A to C makes, and the PUSH task a first Send
\* to B saved under an id no task has makes
ScanTids(cp, chs) ==
  {NULL_TASK_ID}
    \cup Ids(PullPass(<<"A">>, cp, chs, 0, TRUE))
    \cup {PushId(cp, "C", <<PS(PULL), PS("A")>>, 0), PushId(cp, "B", <<>>, 0)}

ScanWrites(cp, chs) ==
  {[tid |-> t, chan |-> w.chan, val |-> w.val] :
     t \in ScanTids(cp, chs),
     w \in {Write(PUSH, Send("B", 1)), Write(PUSH, Send("C", 1)),
            Write(PUSH, Val(1)), Write("mid", Val(1))}}

RECURSIVE SeqsOf(_, _)
SeqsOf(S, n) == IF n = 0 THEN {<<>>} ELSE {<<x>> \o q : x \in S, q \in SeqsOf(S, n - 1)}

PushEntries(pw) == Len(SelectSeq(pw, LAMBDA w : w.chan = PUSH))

InitExpand ==
  /\ \E with_send \in BOOLEAN :
       /\ checkpoint = AfterInput(with_send).checkpoint
       /\ channels = AfterInput(with_send).channels
  /\ step = 0
  /\ pending_writes \in UNION {SeqsOf(ScanWrites(checkpoint, channels), n) : n \in 1..MaxPending}
  /\ PushEntries(pending_writes) > 0
  /\ tasks = LegacyPass(0, checkpoint, step, TRUE)
               \o PullPass(ProcOrder, checkpoint, channels, step, TRUE)
  /\ phase = "expand"
  /\ applies = 0
  /\ last = Last("prepare", NoResult)
  /\ scan = [tidx |-> 1, grouped |-> GroupOrder(pending_writes, <<>>), created |-> 0]

\* lines 412-434: one turn of the while loop, on tasks[tidx]
ExpandStep ==
  /\ phase = "expand"
  /\ scan.tidx <= Len(tasks)
  /\ LET task == tasks[scan.tidx]
         next_tasks == IF task.id \in Range(scan.grouped)
                       THEN SendTasks(task.path, task.id, 0, checkpoint, pending_writes,
                                      step, TRUE)
                       ELSE <<>>
     IN /\ tasks' = tasks \o next_tasks
        /\ scan' = [tidx |-> scan.tidx + 1,
                    grouped |-> PopGroup(scan.grouped, task.id),
                    created |-> scan.created + Len(next_tasks)]
  /\ UNCHANGED <<checkpoint, channels, step, pending_writes, phase, applies, last>>

\* lines 435-436: the while loop is left and the tasks are keyed by id
ExpandEnd ==
  /\ phase = "expand"
  /\ scan.tidx > Len(tasks)
  /\ tasks' = DictPutAll(<<>>, tasks)
  /\ phase' = "orphans"
  /\ UNCHANGED <<checkpoint, channels, step, pending_writes, applies, last, scan>>

\* lines 438-458: one turn of the loop over the groups no task claimed
OrphanStep ==
  /\ phase = "orphans"
  /\ scan.grouped # <<>>
  /\ LET tid == Head(scan.grouped)
         found == {i \in DOMAIN tasks : tasks[i].id = tid}
         parent_path == IF found = {} THEN <<>>
                        ELSE tasks[CHOOSE i \in found : TRUE].path
         next_tasks == SendTasks(parent_path, tid, 0, checkpoint, pending_writes, step, TRUE)
     IN /\ tasks' = DictPutAll(tasks, next_tasks)
        /\ scan' = [scan EXCEPT !.grouped = Tail(@),
                                !.created = @ + Len(next_tasks)]
  /\ UNCHANGED <<checkpoint, channels, step, pending_writes, phase, applies, last>>

\* line 461: return task_map
ExpandReturn ==
  /\ phase = "orphans"
  /\ scan.grouped = <<>>
  /\ phase' = "returned"
  /\ UNCHANGED <<checkpoint, channels, step, pending_writes, tasks, applies, last, scan>>

NextExpand == ExpandStep \/ ExpandEnd \/ OrphanStep \/ ExpandReturn

\* the statements of the call are executed one after the other: the call
\* goes on as long as it has a statement to execute
SpecExpand == InitExpand /\ [][NextExpand]_vars /\ WF_vars(NextExpand)

(***************************************************************************)
(* Notions the properties are stated with.                                 *)
(***************************************************************************)
\* the step being taken is an apply_writes call on the tasks held in `tasks`
IsApply == applies' = applies + 1

\* some task has triggers: the call is for a bumped step
Bumped(ts) == \E i \in DOMAIN ts : ts[i].triggers # <<>>

\* the values the tasks, in sorted order, wrote to the name c
WrittenTo(ts, c) ==
  LET ws == SelectSeq(FlatWrites(SortTasks(ts)), LAMBDA w : w.chan = c)
  IN [i \in DOMAIN ws |-> ws[i].val]

Orderings(ts) ==
  {[i \in DOMAIN ts |-> ts[p[i]]] :
     p \in {q \in [DOMAIN ts -> DOMAIN ts] : \A i, j \in DOMAIN ts : q[i] = q[j] => i = j}}

\* what a caller of apply_writes can observe of a call
Outcome(r) == <<r.raised, r.checkpoint, r.channels, r.managed>>

IsPull(t) == Len(t.path) = 2 /\ t.path[1] = PS(PULL)
PullTaskFor(n) == \E i \in DOMAIN tasks : IsPull(tasks[i]) /\ tasks[i].name = n

\* some trigger channel of n holds a value and has a version n has not seen
TriggerAdvanced(n) ==
  \E c \in Range(Process(n).triggers) :
    /\ channels[c] # <<>>
    /\ Get(checkpoint.channel_versions, c, 0)
         > Get(Get(checkpoint.versions_seen, n, EmptyMap), c, 0)

\* the input of n can be read: every trigger channel among the channels of a
\* mapping holds a value, or some channel of a list does
InputReadable(n) ==
  LET cs == Process(n).channels
  IN IF Process(n).kind = "dict"
     THEN \A i \in DOMAIN cs : cs[i].c \in Range(Process(n).triggers) => channels[cs[i].c] # <<>>
     ELSE \E i \in DOMAIN cs : channels[cs[i].c] # <<>>

AllInterruptNodes ==
  {[all |-> TRUE, names |-> {}]} \cup {[all |-> FALSE, names |-> S] : S \in SUBSET Procs}

(***************************************************************************)
(* The properties.                                                         *)
(***************************************************************************)

\* C1: after any sequence of apply_writes calls with the default increment,
\* every version recorded in versions_seen[n][c] is at most channel_versions[c].
C1_SeenAtMostVersion ==
  \A n \in DOMAIN checkpoint.versions_seen :
    \A c \in DOMAIN checkpoint.versions_seen[n] :
      /\ c \in DOMAIN checkpoint.channel_versions
      /\ checkpoint.versions_seen[n][c] <= checkpoint.channel_versions[c]

\* a bumped step has been applied and left a node behind a channel it has seen
C1_Witness ==
  /\ last.op = "apply" /\ last.bump_step
  /\ \E n \in Procs \cap DOMAIN checkpoint.versions_seen :
       \E c \in DOMAIN checkpoint.versions_seen[n] :
         checkpoint.versions_seen[n][c] < checkpoint.channel_versions[c]
  /\ \E n \in Procs \cap DOMAIN checkpoint.versions_seen :
       \E c \in DOMAIN checkpoint.versions_seen[n] :
         checkpoint.versions_seen[n][c] = checkpoint.channel_versions[c]

\* C2 as stated: prepare_next_tasks prepares a PULL task for a registered node
\* if and only if some trigger channel of the node is available and has a
\* version above the one the node has seen.
C2_PullIffTriggerAdvanced ==
  last.op = "prepare" => \A n \in Procs : PullTaskFor(n) <=> TriggerAdvanced(n)

\* C2 amended: prepare_next_tasks prepares a PULL task for a registered node if
\* and only if some trigger channel of the node is available and has a version
\* above the one the node has seen, and the node's input can be read.
C2_PullIffAdvancedAndReadable ==
  last.op = "prepare" =>
    \A n \in Procs : PullTaskFor(n) <=> (TriggerAdvanced(n) /\ InputReadable(n))

\* the planner ran, prepared a PULL task, and left out a node whose trigger
\* advanced because its input cannot be read
C2_Witness ==
  /\ last.op = "prepare"
  /\ \E n \in Procs : PullTaskFor(n)
  /\ \E n \in Procs : TriggerAdvanced(n) /\ ~InputReadable(n) /\ ~PullTaskFor(n)

\* C3 as stated: after apply_writes for a bumped step, whatever the tasks
\* wrote, pending_sends is empty.
C3_SendsEmptyAfterBump ==
  (last.op = "apply" /\ last.bump_step) => checkpoint.pending_sends = <<>>

\* C3 amended: after apply_writes for a bumped step, pending_sends holds exactly
\* the values the tasks of the step wrote to TASKS, in sorted task order; the
\* sends carried in from before are gone.
C3_SendsAreTheStepsTasksWrites ==
  [][(IsApply /\ Bumped(tasks) /\ ~SortRaises(tasks))
       => checkpoint'.pending_sends = WrittenTo(tasks, TASKS)]_vars

\* a bumped step has been applied and a Send written to TASKS is pending
C3_Witness ==
  last.op = "apply" /\ last.bump_step /\ checkpoint.pending_sends # <<>>

\* C4: every permutation of the tasks passed to apply_writes gives the same
\* checkpoint, the same channel contents and the same managed writes.
C4_PermutationInvariant ==
  phase = "exec" =>
    \A p \in Orderings(tasks) :
      Outcome(ApplyWrites(checkpoint, channels, p, TRUE))
        = Outcome(ApplyWrites(checkpoint, channels, tasks, TRUE))

\* C5: in an apply_writes call for a bumped step every channel receives exactly
\* one update call, with the writes buffered for it, which are none for a
\* channel no task wrote to.
C5_OneUpdatePerChannel ==
  [][(IsApply /\ Bumped(tasks) /\ ~SortRaises(tasks))
       => \A c \in Chans : last'.update_calls[c] = <<WrittenTo(tasks, c)>>]_vars

\* a bumped step has been applied in which one channel got the step's writes
\* and another got update([])
C5_Witness ==
  /\ last.op = "apply" /\ last.bump_step
  /\ \E c \in Chans : last.update_calls[c] = << <<>> >>
  /\ \E c \in Chans : Len(last.update_calls[c]) = 1 /\ last.update_calls[c][1] # <<>>

\* C6: an apply_writes call in which no task has triggers leaves versions_seen
\* and pending_sends exactly as they were, whatever the tasks wrote.
C6_NonBumpedLeavesSeenAndSends ==
  [][(IsApply /\ ~Bumped(tasks))
       => /\ checkpoint'.versions_seen = checkpoint.versions_seen
          /\ checkpoint'.pending_sends = checkpoint.pending_sends]_vars

\* C7: should_interrupt returns the empty list, for any interrupt_nodes,
\* whenever no channel version is greater than its entry in
\* versions_seen[INTERRUPT] (a missing entry reads as 0).
C7_NoInterruptWithoutUpdates ==
  (\A c \in DOMAIN checkpoint.channel_versions :
     checkpoint.channel_versions[c]
       <= Get(Get(checkpoint.versions_seen, INTERRUPT, EmptyMap), c, 0))
    => \A nodes \in AllInterruptNodes : ShouldInterrupt(checkpoint, nodes, tasks) = <<>>

\* tasks are prepared on a checkpoint whose every channel version the last
\* interrupt has seen
C7_Witness ==
  /\ phase = "exec"
  /\ \E i \in DOMAIN tasks : ~tasks[i].hidden
  /\ DOMAIN checkpoint.channel_versions # {}
  /\ INTERRUPT \in DOMAIN checkpoint.versions_seen
  /\ checkpoint.versions_seen[INTERRUPT] = checkpoint.channel_versions

\* C8: when some channel version exceeds its entry in versions_seen[INTERRUPT],
\* should_interrupt returns exactly the tasks whose name is in interrupt_nodes,
\* or under "*" exactly the tasks without the hidden tag, in task order.
C8_InterruptSelectsExactly ==
  (\E c \in DOMAIN checkpoint.channel_versions :
     checkpoint.channel_versions[c]
       > Get(Get(checkpoint.versions_seen, INTERRUPT, EmptyMap), c, 0))
    => \A nodes \in AllInterruptNodes :
         LET r == ShouldInterrupt(checkpoint, nodes, tasks)
             wanted == {i \in DOMAIN tasks :
                          IF nodes.all THEN ~tasks[i].hidden
                          ELSE tasks[i].name \in nodes.names}
         IN /\ Len(r) = Cardinality(wanted)
            /\ \A i \in wanted : \E k \in DOMAIN r : r[k] = tasks[i]
            /\ \A k \in DOMAIN r : \E i \in wanted : r[k] = tasks[i]

\* a hidden and a visible task are prepared and a channel has been updated
\* since the last interrupt
C8_Witness ==
  /\ phase = "exec"
  /\ \E i \in DOMAIN tasks : tasks[i].hidden
  /\ \E i \in DOMAIN tasks : ~tasks[i].hidden
  /\ INTERRUPT \in DOMAIN checkpoint.versions_seen
  /\ \E c \in DOMAIN checkpoint.channel_versions :
       checkpoint.channel_versions[c] > Get(checkpoint.versions_seen[INTERRUPT], c, 0)

\* a second run whose data differ: every value written, held by a channel or
\* carried by a Send is another value.  The checkpoint id, the step, the
\* versions, the names and the order of the writes are those of the first run.
OtherValue(v) == IF v.type = "none" THEN v ELSE [v EXCEPT !.arg = @ + 1]
OtherCheckpoint(cp) ==
  [cp EXCEPT !.pending_sends = [i \in DOMAIN @ |-> OtherValue(@[i])]]
OtherChannels(chs) == [c \in DOMAIN chs |-> [i \in DOMAIN chs[c] |-> OtherValue(chs[c][i])]]
OtherWrites(pw) == [i \in DOMAIN pw |-> [pw[i] EXCEPT !.val = OtherValue(@)]]

\* C9: the planner gives the same task ids whenever it is run on the same
\* checkpoint id, step, versions and pending writes: whether it prepares for
\* execution or not, and whatever the values the channels hold and the Sends
\* and writes carry, it returns the same tasks (name and path) in the same
\* order under the same ids; no two tasks of a run share an id; and the
\* triggers a PULL id is taken of are in sorted order, whatever the order the
\* node declares them in.
C9_SameIdsOnEveryRun ==
  LET run == PrepareNextTasks(checkpoint, pending_writes, channels, step, TRUE).tasks
      dry == PrepareNextTasks(checkpoint, pending_writes, channels, step, FALSE).tasks
      other == PrepareNextTasks(OtherCheckpoint(checkpoint), OtherWrites(pending_writes),
                                OtherChannels(channels), step, TRUE).tasks
  IN /\ Len(dry) = Len(run) /\ Len(other) = Len(run)
     /\ \A i \in DOMAIN run :
          /\ dry[i].id = run[i].id /\ dry[i].name = run[i].name /\ dry[i].path = run[i].path
          /\ other[i].id = run[i].id /\ other[i].name = run[i].name
          /\ other[i].path = run[i].path
          /\ IsPull(run[i])
               => \A a, b \in DOMAIN run[i].triggers :
                    a < b => \E p, q \in DOMAIN ChanOrder :
                               /\ ChanOrder[p] = run[i].triggers[a]
                               /\ ChanOrder[q] = run[i].triggers[b]
                               /\ p < q
     /\ \A i, j \in DOMAIN run : run[i].id = run[j].id => i = j

\* a step with a PULL task, a legacy PUSH task and a PUSH task from a
\* pending write, planned for B among others on both its triggers, which it
\* declares out of sorted order; the inputs of the tasks differ between the
\* two runs
C9_Witness ==
  LET run == PrepareNextTasks(checkpoint, pending_writes, channels, step, TRUE).tasks
      other == PrepareNextTasks(OtherCheckpoint(checkpoint), OtherWrites(pending_writes),
                                OtherChannels(channels), step, TRUE).tasks
  IN /\ phase = "exec"
     /\ \E i \in DOMAIN run : IsPull(run[i]) /\ run[i].input # other[i].input
     /\ \E i \in DOMAIN run : IsPull(run[i]) /\ run[i].name = "B" /\ Len(run[i].triggers) = 2
     /\ \E i \in DOMAIN run : Len(run[i].path) = 3 /\ run[i].input # other[i].input
     /\ \E i \in DOMAIN run : /\ ~IsPull(run[i]) /\ Len(run[i].path) = 2
                                /\ run[i].input # other[i].input

WrittenNames(ts) == {FlatWrites(ts)[k].chan : k \in DOMAIN FlatWrites(ts)}

\* C11 as stated: apply_writes passes the writes to a name in channels to that
\* channel's update, grouped per channel in sorted task order, and returns every
\* write to a name that is neither a control name nor in channels in the
\* managed-writes map under that name.
C11_RoutesByName ==
  [][(IsApply /\ ~SortRaises(tasks))
       => /\ \A c \in Chans :
               WrittenTo(tasks, c) # <<>>
                 => last'.update_calls[c] = <<WrittenTo(tasks, c)>>
          /\ last'.managed
               = [n \in WrittenNames(tasks) \ (ControlNames \cup Chans)
                    |-> WrittenTo(tasks, n)]]_vars

\* C11 amended: as stated, for names that are neither a control name, nor
\* TASKS, nor in channels; and no channel is updated with anything but the
\* writes addressed to it.
C11_RoutesByNameExceptTasks ==
  [][(IsApply /\ ~SortRaises(tasks))
       => /\ \A c \in Chans :
               /\ WrittenTo(tasks, c) # <<>>
                    => last'.update_calls[c] = <<WrittenTo(tasks, c)>>
               /\ \A k \in DOMAIN last'.update_calls[c] :
                    last'.update_calls[c][k] \in {<<>>, WrittenTo(tasks, c)}
          /\ last'.managed
               = [n \in WrittenNames(tasks) \ (ControlNames \cup {TASKS} \cup Chans)
                    |-> WrittenTo(tasks, n)]]_vars

\* a step has been applied in which one task wrote to a managed name and
\* another to a channel
C11_Witness ==
  /\ last.op = "apply" /\ ~last.raised
  /\ DOMAIN last.managed # {}
  /\ \E c \in Chans : \E k \in DOMAIN last.update_calls[c] : last.update_calls[c][k] # <<>>

\* a Send packet addressed to a registered node
IsValidSend(v) == v.type = "send" /\ v.node \in Procs

\* ts holds a PUSH task for the packet with the given path
HasPushTask(ts, path, packet) ==
  \E i \in DOMAIN ts :
    /\ ts[i].path = path
    /\ ts[i].name = packet.node
    /\ ts[i].triggers = <<PUSH>>
    /\ ts[i].input = <<Entry("", <<packet.arg>>)>>

IsLegacyPush(t) == Len(t.path) = 2 /\ t.path[1] = PS(PUSH)

\* C12 as stated: when a task of superstep s emits (PUSH, Send(B, arg)) with B
\* registered, then after apply_writes for step s the planner at step s+1
\* prepares, from pending_sends, a PUSH task named B with path (PUSH, 0) and
\* input arg (path (PUSH, k) for the k-th such write of the step).
C12_PushWriteBecomesLegacyTask ==
  [][(IsApply /\ Bumped(tasks) /\ ~SortRaises(tasks))
       => LET sent == WrittenTo(tasks, PUSH)
              next == PrepareNextTasks(checkpoint', pending_writes', channels', step',
                                       TRUE).tasks
          IN \A k \in DOMAIN sent :
               IsValidSend(sent[k]) => HasPushTask(next, <<PS(PUSH), PI(k - 1)>>, sent[k])]_vars

\* C12 amended: when the tasks of superstep s emit writes to TASKS, then after
\* apply_writes for step s the planner at step s+1 prepares, from pending_sends,
\* for the k-th of these writes in sorted task order (k from 0) that is a Send
\* to a registered node B with argument arg, a PUSH task named B with path
\* (PUSH, k) and input arg; it prepares no other legacy PUSH task, and none for
\* a write to PUSH.
C12_TasksWriteBecomesLegacyTask ==
  [][(IsApply /\ Bumped(tasks) /\ ~SortRaises(tasks))
       => LET sent == WrittenTo(tasks, TASKS)
              next == PrepareNextTasks(checkpoint', pending_writes', channels', step',
                                       TRUE).tasks
          IN /\ \A k \in DOMAIN sent :
                  IsValidSend(sent[k])
                    => HasPushTask(next, <<PS(PUSH), PI(k - 1)>>, sent[k])
             /\ \A i \in DOMAIN next :
                  IsLegacyPush(next[i])
                    => /\ next[i].path[2].i + 1 \in DOMAIN sent
                       /\ IsValidSend(sent[next[i].path[2].i + 1])]_vars

\* the planner of step 1 has prepared the legacy PUSH task of the Send that
\* node A wrote to TASKS in step 0
C12_Witness ==
  /\ last.op = "prepare" /\ step = 1 /\ applies = 2
  /\ "in" \in DOMAIN checkpoint.channel_versions
  /\ Len(tasks) = 1
  /\ HasPushTask(tasks, <<PS(PUSH), PI(0)>>, Send("B", 1))

\* C13: when pending_writes holds a PUSH write (tid, PUSH, Send(B, arg)) whose
\* tid is the id of a task prepared in the call, the call returns a PUSH task
\* for B with path (PUSH, path of that task, index of the write among tid's
\* pending writes) and input arg, chains of sends included.
C13_SendsOfPreparedTasksExpand ==
  phase = "exec" =>
    \A i \in DOMAIN tasks :
      LET ws == WritesFor(pending_writes, tasks[i].id)
      IN \A j \in DOMAIN ws :
           (ws[j].chan = PUSH /\ IsValidSend(ws[j].val))
             => HasPushTask(tasks, <<PS(PUSH), PT(tasks[i].path), PI(j - 1)>>, ws[j].val)

\* a step is being executed whose tasks include one made from the pending
\* write of another task of the step
C13_Witness ==
  /\ phase = "exec"
  /\ \E i, k \in DOMAIN tasks :
       /\ WritesFor(pending_writes, tasks[i].id) # <<>>
       /\ Len(tasks[k].path) = 3
       /\ tasks[k].path[2] = PT(tasks[i].path)

\* C14 as stated: local_write raises and appends nothing to the task's buffer
\* whenever some write of the batch addressed to PUSH or TASKS carries a value
\* that is not a Send to a registered process; otherwise it appends the whole
\* batch in order.
C14_RejectsEveryNonSend ==
  [][last'.op = "local_write"
       => LET b == last'.call.batch
              i == last'.call.writer
              bad == \E k \in DOMAIN b :
                       b[k].chan \in {PUSH, TASKS} /\ ~IsValidSend(b[k].val)
          IN IF bad THEN last'.raised /\ tasks'[i].writes = tasks[i].writes
             ELSE ~last'.raised /\ tasks'[i].writes = tasks[i].writes \o b]_vars

\* C14 amended: local_write raises and appends nothing whenever some write of
\* the batch addressed to PUSH or TASKS carries a value other than None that is
\* not a Send to a registered process; otherwise (None included) it appends
\* the whole batch in order.
C14_RejectsNonSendExceptNone ==
  [][last'.op = "local_write"
       => LET b == last'.call.batch
              i == last'.call.writer
              bad == \E k \in DOMAIN b :
                       /\ b[k].chan \in {PUSH, TASKS}
                       /\ b[k].val # None
                       /\ ~IsValidSend(b[k].val)
          IN IF bad THEN last'.raised /\ tasks'[i].writes = tasks[i].writes
             ELSE ~last'.raised /\ tasks'[i].writes = tasks[i].writes \o b]_vars

\* a writer has raised on a batch whose first write was acceptable, after the
\* same task had a batch accepted
C14_Witness ==
  /\ last.op = "local_write" /\ last.raised
  /\ Len(last.call.batch) = 2
  /\ ~LocalWriteRaises(<<last.call.batch[1]>>)
  /\ tasks[last.call.writer].writes # <<>>

\* the entries of a read that come from channels
ChannelEntries(values) == SelectSeq(values, LAMBDA e : e.k \notin ManagedKeys)

\* read_channels(channels, select) on the shared channels
DirectRead(select) ==
  ReadChannels(channels,
               IF select.single THEN select
               ELSE [select EXCEPT !.keys = SelectSeq(@, LAMBDA k : k \notin ManagedKeys)])

WrittenBy(t) == {t.writes[k].chan : k \in DOMAIN t.writes}

\* C15: local_read returns what a direct read of channels returns when fresh is
\* False, and when fresh is True and no selected channel is among those the
\* task has written; with fresh=True only the channels the task wrote can read
\* differently.
C15_ReadEqualsDirectRead ==
  [][last'.op = "local_read"
       => LET c == last'.call
              t == tasks[c.writer]
          IN /\ (~c.fresh \/ Range(c.select.keys) \cap WrittenBy(t) = {})
                  => ChannelEntries(c.values) = DirectRead(c.select)
             /\ SelectSeq(ChannelEntries(c.values), LAMBDA e : e.k \notin WrittenBy(t))
                  = SelectSeq(DirectRead(c.select), LAMBDA e : e.k \notin WrittenBy(t))]_vars

\* a task has read fresh a channel it wrote to, along with one it did not, and
\* got its own write
C15_Witness ==
  /\ last.op = "local_read" /\ last.call.fresh
  /\ Len(last.call.select.keys) = 2
  /\ ChannelEntries(last.call.values) # DirectRead(last.call.select)

\* C16: under any interleaving of the writer calls of the tasks of a superstep,
\* a call changes the buffer of the calling task only, appending the batch whole
\* and in order when it is accepted and nothing when it is not; reads and
\* replays change no buffer.
C16_BuffersAreOwned ==
  [][/\ last'.op = "local_write"
          => LET b == last'.call.batch
                 i == last'.call.writer
             IN /\ DOMAIN tasks' = DOMAIN tasks
                /\ \A j \in DOMAIN tasks : j # i => tasks'[j] = tasks[j]
                /\ tasks'[i] = [tasks[i] EXCEPT !.writes =
                                  IF last'.raised THEN @ ELSE @ \o b]
     /\ last'.op \in {"local_read", "prepare_single"} => tasks' = tasks]_vars

\* two tasks of the step have buffered different writes, one of them through
\* two calls of its writer
C16_Witness ==
  /\ last.op = "local_write" /\ ~last.raised
  /\ \E i, j \in DOMAIN tasks :
       /\ i # j
       /\ tasks[i].writes # <<>> /\ tasks[j].writes # <<>>
       /\ tasks[i].writes # tasks[j].writes
  /\ Len(tasks[last.call.writer].writes) > Len(last.call.batch)

\* C17: prepare_single_task given a checksum fails with an assertion error and
\* returns no task when it computes a different id; when the ids are equal it
\* returns the task it returns without a checksum; when it computes no id it
\* returns None without failing.
C17_ChecksumMismatchFails ==
  [][last'.op = "prepare_single"
       => LET c == last'.call
              plain == PrepareSingleTask(c.path, checkpoint, pending_writes, channels,
                                         step, c.for_execution)
          IN /\ (c.checksum # NoChecksum /\ plain # <<>> /\ plain[1].id # c.checksum)
                  => (last'.raised /\ c.task = <<>>)
             /\ (c.checksum = NoChecksum \/ plain = <<>> \/ plain[1].id = c.checksum)
                  => (~last'.raised /\ c.task = plain)]_vars

\* a task has been prepared again with the id of another task of the step as
\* checksum, and the assertion failed
C17_Witness ==
  /\ last.op = "prepare_single" /\ last.raised
  /\ last.call.checksum \in Ids(tasks)
  /\ \E i \in DOMAIN tasks : tasks[i].path = Prefix3(last.call.path)

\* the position of pending write k among the writes saved under its task id
WriteIdx(pw, k) == Cardinality({m \in 1..(k - 1) : pw[m].tid = pw[k].tid})

IsNewPush(t) == Len(t.path) = 3 /\ t.path[1] = PS(PUSH)

\* C18: the planner skips an invalid entry and goes on.  In the map returned
\* by prepare_next_tasks every valid pending_sends entry has its legacy PUSH
\* task and every valid PUSH pending write has its PUSH task, at the index of
\* the entry; every PUSH task of the map comes from such a valid entry, so a
\* packet that is no Send or names an unregistered node has none; and
\* prepare_single_task returns nothing for an index past the end of
\* pending_sends or of the writes of a task id.
C18_InvalidEntriesSkipped ==
  last.op = "prepare" =>
    LET ps == checkpoint.pending_sends
        pw == pending_writes
    IN /\ \A i \in DOMAIN ps :
            IF IsValidSend(ps[i])
            THEN \E n \in DOMAIN tasks :
                   tasks[n].path = <<PS(PUSH), PI(i - 1)>> /\ tasks[n].name = ps[i].node
            ELSE \A n \in DOMAIN tasks : tasks[n].path # <<PS(PUSH), PI(i - 1)>>
       /\ \A n \in DOMAIN tasks :
            IsLegacyPush(tasks[n]) => tasks[n].path[2].i < Len(ps)
       /\ \A k \in DOMAIN pw :
            (pw[k].chan = PUSH /\ IsValidSend(pw[k].val)) =>
              \E n \in DOMAIN tasks :
                /\ IsNewPush(tasks[n])
                /\ tasks[n].path[3] = PI(WriteIdx(pw, k))
                /\ tasks[n].name = pw[k].val.node
       /\ \A n \in DOMAIN tasks :
            IsNewPush(tasks[n]) =>
              \E k \in DOMAIN pw :
                /\ pw[k].chan = PUSH /\ IsValidSend(pw[k].val)
                /\ tasks[n].path[3] = PI(WriteIdx(pw, k))
                /\ tasks[n].name = pw[k].val.node
       /\ PrepareSingleTask(<<PS(PUSH), PI(Len(ps))>>, checkpoint, pw, channels,
                            step, TRUE) = <<>>
       /\ \A k \in DOMAIN pw :
            PrepareSingleTask(<<PS(PUSH), PT(<<>>), PI(Len(WritesFor(pw, pw[k].tid))),
                                PS(pw[k].tid)>>,
                              checkpoint, pw, channels, step, TRUE) = <<>>

\* the planner has met a packet that is no Send and a Send to an unregistered
\* node among the pending writes, and an invalid packet among the pending
\* sends, and returned the tasks of the valid entries next to them
C18_Witness ==
  /\ last.op = "prepare"
  /\ \E k \in DOMAIN pending_writes :
       pending_writes[k].chan = PUSH /\ pending_writes[k].val.type = "val"
  /\ \E k \in DOMAIN pending_writes :
       pending_writes[k].chan = PUSH /\ pending_writes[k].val = Send("Z", 1)
  /\ \E i \in DOMAIN checkpoint.pending_sends : ~IsValidSend(checkpoint.pending_sends[i])
  /\ \E n \in DOMAIN tasks : IsNewPush(tasks[n]) /\ tasks[n].path[3] = PI(2)
  /\ \E n \in DOMAIN tasks : IsLegacyPush(tasks[n])
\* versions_seen after the call holds, for every task and every trigger of it
\* that had a version, the version the channel had on entry
SeenAsOnEntry ==
  \A i \in DOMAIN tasks : \A c \in Range(tasks[i].triggers) :
    c \in DOMAIN checkpoint.channel_versions =>
      /\ tasks[i].name \in DOMAIN checkpoint'.versions_seen
      /\ c \in DOMAIN checkpoint'.versions_seen[tasks[i].name]
      /\ checkpoint'.versions_seen[tasks[i].name][c] = checkpoint.channel_versions[c]

\* C19 as stated: apply_writes records for every task the entry version of
\* each of its triggers that has a version, and every channel the step wrote
\* to gets a version one above the highest version on entry.
C19_SeenOnEntryWrittenOneAbove ==
  [][(IsApply /\ ~SortRaises(tasks))
       => /\ SeenAsOnEntry
          /\ \A c \in Chans :
               WrittenTo(tasks, c) # <<>> =>
                 /\ c \in DOMAIN checkpoint'.channel_versions
                 /\ checkpoint'.channel_versions[c]
                      = MaxVersion(checkpoint.channel_versions) + 1]_vars

\* C19: apply_writes records for every task the entry version of each of its
\* triggers that has a version.  A channel the step wrote to whose update
\* reports a change gets a version one above the highest version at the start
\* of the update phase: one above the highest on entry when no consume() of
\* the call reported a change, two above it when one did.  A written channel
\* whose update reports no change keeps the version the consume phase left.
C19_SeenOnEntryWrittenAboveSeed ==
  [][(IsApply /\ ~SortRaises(tasks))
       => /\ SeenAsOnEntry
          /\ \A c \in Chans :
               WrittenTo(tasks, c) # <<>> =>
                 LET cv == checkpoint.channel_versions
                     new == checkpoint'.channel_versions
                 IN IF c \in last'.changed
                    THEN /\ c \in DOMAIN new
                         /\ new[c] = MaxVersion(cv) + (IF last'.drained = {} THEN 1 ELSE 2)
                    ELSE IF c \in last'.drained
                    THEN c \in DOMAIN new /\ new[c] = MaxVersion(cv) + 1
                    ELSE /\ c \in DOMAIN new <=> c \in DOMAIN cv
                         /\ c \in DOMAIN cv => new[c] = cv[c]]_vars

\* a step has been applied in which a trigger channel was drained, a channel
\* the tasks wrote to reported a change, and a task's trigger versions were
\* recorded
C19_Witness ==
  /\ last.op = "apply" /\ ~last.raised
  /\ last.drained # {}
  /\ \E c \in last.changed :
       Len(last.update_calls[c]) = 1 /\ last.update_calls[c][1] # <<>>
  /\ \E n \in DOMAIN checkpoint.versions_seen :
       n # INTERRUPT /\ "out" \in DOMAIN checkpoint.versions_seen[n]

\* C20 as stated: in an apply_writes call, a channel whose consume() reported
\* a change ends with a version strictly below that of every other channel
\* whose update reported a change.
C20_DrainedBelowUpdated ==
  [][(IsApply /\ ~SortRaises(tasks))
       => \A c \in last'.drained : \A d \in last'.changed \ {c} :
            checkpoint'.channel_versions[c] < checkpoint'.channel_versions[d]]_vars

\* C20: in an apply_writes call, a channel whose consume() reported a change
\* and whose own update reported none ends with a version strictly below that
\* of every other channel whose update reported a change.
C20_DrainedOnlyBelowUpdated ==
  [][(IsApply /\ ~SortRaises(tasks))
       => \A c \in last'.drained \ last'.changed : \A d \in last'.changed \ {c} :
            checkpoint'.channel_versions[c] < checkpoint'.channel_versions[d]]_vars

\* a step has been applied that drained one channel without updating it and
\* updated another
C20_Witness ==
  /\ last.op = "apply" /\ ~last.raised
  /\ \E c \in last.drained \ last.changed : \E d \in last.changed :
       checkpoint.channel_versions[c] < checkpoint.channel_versions[d]
\* the task set holds the PULL task of n
PullTaskOf(n) == tasks[CHOOSE i \in DOMAIN tasks : IsPull(tasks[i]) /\ tasks[i].name = n]

\* the keys of a mapping whose channel holds a value, with the value, and
\* those of its managed values, in the order of the mapping
ReadableEntries(n) ==
  LET cs == SelectSeq(Process(n).channels,
                      LAMBDA it : it.c \in DOMAIN channels => channels[it.c] # <<>>)
  IN [i \in DOMAIN cs |->
        Entry(cs[i].k, IF cs[i].c \in DOMAIN channels THEN channels[cs[i].c]
                       ELSE ManagedValue(cs[i].k))]

\* C21: the planner prepares no PULL task for a node all of whose trigger
\* channels are empty, for a node reading a mapping one of whose channels is
\* an empty trigger, or for a node reading a list all of whose channels are
\* empty.  An empty channel of a mapping that is no trigger does not suppress
\* the task: a node whose trigger advanced and whose trigger channels in the
\* mapping all hold a value gets its task, with the keys of the empty
\* channels left out of the input.
C21_NoPullWithoutInput ==
  last.op = "prepare" =>
    \A n \in Procs :
      LET proc == Process(n)
          cs == proc.channels
      IN /\ (\A c \in Range(proc.triggers) : channels[c] = <<>>) => ~PullTaskFor(n)
         /\ (proc.kind = "dict"
              /\ \E i \in DOMAIN cs :
                   cs[i].c \in Range(proc.triggers) /\ channels[cs[i].c] = <<>>)
              => ~PullTaskFor(n)
         /\ (proc.kind = "list" /\ \A i \in DOMAIN cs : channels[cs[i].c] = <<>>)
              => ~PullTaskFor(n)
         /\ (proc.kind = "dict"
              /\ TriggerAdvanced(n)
              /\ \A i \in DOMAIN cs :
                   cs[i].c \in Range(proc.triggers) => channels[cs[i].c] # <<>>)
              => (PullTaskFor(n) /\ PullTaskOf(n).input = ReadableEntries(n))

\* the planner prepared the PULL task of B, which reads a mapping, while the
\* channel "in" of the mapping, no trigger of B, was empty: the input holds
\* the key of the trigger and that of the managed value, and not the key y
C21_Witness ==
  /\ last.op = "prepare"
  /\ channels["in"] = <<>>
  /\ PullTaskFor("B")
  /\ PullTaskOf("B").input = <<Entry("x", channels["mid"]), Entry("mv", ManagedValue("mv"))>>
\* the task map the planner returns for the state a step leaves
NextTasks == PrepareNextTasks(checkpoint', pending_writes', channels', step', TRUE).tasks

\* C23: when a step is applied in which a task wrote to a channel c, c's
\* update reported a change and c holds a value afterwards, the task set
\* prepared next holds a PULL task for every registered process that has c
\* among its triggers and whose input can be read.
C23_WrittenTriggerSchedules ==
  [][(IsApply /\ Bumped(tasks))
       => \A c \in Chans :
            (WrittenTo(tasks, c) # <<>> /\ c \in last'.changed /\ channels'[c] # <<>>)
              => \A n \in Procs :
                   (c \in Range(Process(n).triggers) /\ InputReadable(n)')
                     => \E i \in DOMAIN NextTasks :
                          IsPull(NextTasks[i]) /\ NextTasks[i].name = n]_vars

\* a step has been applied in which a task wrote a channel that changed and
\* holds a value, and a process triggered by that channel can read its input
C23_Witness ==
  /\ last.op = "apply" /\ last.bump_step
  /\ \E c \in last.changed :
       /\ Len(last.update_calls[c]) = 1 /\ last.update_calls[c][1] # <<>>
       /\ channels[c] # <<>>
       /\ \E n \in Procs : c \in Range(Process(n).triggers) /\ InputReadable(n)
\* C24: no step of the loop lowers or removes the version of a channel, and
\* every version an apply_writes call assigns is strictly greater than every
\* channel version there was on entry to the call.
C24_VersionsOnlyGrow ==
  [][LET cv == checkpoint.channel_versions
         new == checkpoint'.channel_versions
     IN /\ \A c \in DOMAIN cv : c \in DOMAIN new /\ cv[c] <= new[c]
        /\ \A c \in DOMAIN new :
             (c \notin DOMAIN cv \/ new[c] # cv[c])
               => /\ IsApply
                  /\ new[c] >= 1
                  /\ \A d \in DOMAIN cv : cv[d] < new[c]]_vars

\* a step has been applied that gave a channel a new version, above that of
\* a channel the call left alone
C24_Witness ==
  /\ last.op = "apply" /\ ~last.raised
  /\ \E c \in last.changed : \E d \in DOMAIN checkpoint.channel_versions :
       /\ d \notin last.changed \cup last.drained
       /\ checkpoint.channel_versions[d] < checkpoint.channel_versions[c]
\* the call followed statement by statement returns the map TaskMap computes
ScanReturnsTaskMap ==
  phase = "returned" => tasks = TaskMap(checkpoint, pending_writes, channels, step, TRUE)

\* C25: the passes of prepare_next_tasks over the pending writes come to an
\* end, and at no point have they prepared more PUSH tasks than pending_writes
\* has PUSH entries.
C25_ExpansionTerminates ==
  /\ <>(phase = "returned")
  /\ [](scan.created <= PushEntries(pending_writes))

\* the call has returned after the while loop reached a task the loop itself
\* had appended and prepared that task's Send: the map holds a PUSH task whose
\* parent is a PUSH task
C25_Witness ==
  /\ phase = "returned"
  /\ scan.created >= 2
  /\ \E i \in DOMAIN tasks :
       IsNewPush(tasks[i]) /\ Len(tasks[i].path[2].tup) = 3
\* the tasks of the step hold a PULL task of n and the step's apply_writes
\* call does not raise and changes the version of none of n's triggers
RanWithoutAdvance(n) ==
  /\ PullTaskFor(n)
  /\ ~SortRaises(tasks)
  /\ \A c \in Range(Process(n).triggers) :
       Get(checkpoint'.channel_versions, c, 0) = Get(checkpoint.channel_versions, c, 0)

\* C26: when a step in which a node ran as a PULL task is applied and the
\* call advances the version of none of the node's trigger channels, the task
\* set prepared next holds no PULL task for the node.
C26_NoPullAgainWithoutAdvance ==
  [][IsApply
       => \A n \in Procs :
            RanWithoutAdvance(n)
              => ~\E i \in DOMAIN NextTasks :
                    IsPull(NextTasks[i]) /\ NextTasks[i].name = n]_vars

\* a step has been applied after which a node has seen the current version
\* of each of its trigger channels that has one, while one of them still
\* holds a value
C26_Witness ==
  /\ last.op = "apply" /\ last.bump_step /\ ~last.raised
  /\ \E n \in Procs \cap DOMAIN checkpoint.versions_seen :
       /\ \A c \in Range(Process(n).triggers) \cap DOMAIN checkpoint.channel_versions :
            /\ c \in DOMAIN checkpoint.versions_seen[n]
            /\ checkpoint.versions_seen[n][c] = checkpoint.channel_versions[c]
       /\ \E c \in Range(Process(n).triggers) : channels[c] # <<>>
       /\ InputReadable(n)
LegacyTasks(ts) == SelectSeq(ts, LAMBDA t : IsLegacyPush(t))

\* C27: a Send to a registered node that a task of a step writes to TASKS
\* yields a legacy PUSH task in the task set prepared next; and when a step
\* whose tasks include a legacy PUSH task is applied, the sends that were
\* pending are gone: pending_sends holds the Sends written to TASKS in that
\* step alone, and the task set prepared next has a legacy PUSH task for each
\* valid one of these and no other.
C27_LegacySendDeliveredOnce ==
  [][(IsApply /\ Bumped(tasks) /\ ~SortRaises(tasks))
       => LET sent == WrittenTo(tasks, TASKS)
              valid == SelectSeq(sent, IsValidSend)
          IN /\ \A k \in DOMAIN sent :
                  IsValidSend(sent[k])
                    => Len(SelectSeq(NextTasks,
                                     LAMBDA t : t.path = <<PS(PUSH), PI(k - 1)>>)) = 1
             /\ (LegacyTasks(tasks) # <<>>)
                  => /\ checkpoint'.pending_sends = sent
                     /\ Len(LegacyTasks(NextTasks)) = Len(valid)]_vars

\* the first step of a run that graph input opened with a write to TASKS has
\* been applied: only the legacy PUSH task of B ran, and no send is pending
C27_Witness ==
  /\ last.op = "apply" /\ last.bump_step /\ ~last.raised
  /\ step = 1
  /\ DOMAIN checkpoint.versions_seen = {INPUT, "B"}
  /\ DOMAIN checkpoint.channel_versions = {}
  /\ checkpoint.pending_sends = <<>>
\* C28: when a step is applied whose tasks made no write and in whose
\* apply_writes call no consume() and no update reported a change, the
\* planner, handed no pending writes, returns an empty task map for the
\* following step.
C28_QuietStepQuiesces ==
  [][(IsApply /\ Bumped(tasks) /\ ~SortRaises(tasks)
        /\ FlatWrites(tasks) = <<>>
        /\ last'.drained = {} /\ last'.changed = {})
       => /\ pending_writes' = <<>>
          /\ NextTasks = <<>>]_vars

\* a step has been applied in which every channel got update([]) and none
\* reported a change, nothing was consumed with a change and nothing was
\* sent, while a node with a readable input has a trigger that holds a value
C28_Witness ==
  /\ last.op = "apply" /\ last.bump_step /\ ~last.raised
  /\ last.drained = {} /\ last.changed = {}
  /\ \A c \in Chans : last.update_calls[c] = << <<>> >>
  /\ last.managed = EmptyMap
  /\ checkpoint.pending_sends = <<>>
  /\ \E n \in Procs :
       /\ InputReadable(n)
       /\ \E c \in Range(Process(n).triggers) : channels[c] # <<>>
====
